---- MODULE Spec2Model ----
(***************************************************************************)
(* Model of the phase orchestrator (WarpSystem) of                         *)
(* src/src/core/ariel_algorithm.py.                                        *)
(*                                                                         *)
(* Units.  Times are whole seconds (time.time()).  Team efficiencies and   *)
(* the error rate are in hundredths (0.8 is 80, 0.1 is 10).  CPU and       *)
(* memory usage are percentages.                                           *)
(*                                                                         *)
(* The field self.phase holds either a plain int (the class attributes     *)
(* WarpPhase.INITIALIZATION .. WarpPhase.WARP_DRIVE are ints) or a         *)
(* WarpPhase instance (built by WarpPhase(n)).  WarpPhase is an ordinary   *)
(* class, not an enum: an int has no attribute "value", and an instance    *)
(* never compares equal to an int.  A phase is therefore modelled as a     *)
(* record [isObj, value].                                                  *)
(***************************************************************************)
EXTENDS Integers, FiniteSets, Sequences, TLC

(* ---------------------------------------------------------------------- *)
(* Bounds of the model                                                     *)
(* ---------------------------------------------------------------------- *)
MaxTime == 12
MaxLog == 6
MaxShortLog == 4
MaxRingCalls == 102
MaxEmotionUpdates == 4
MaxHistory == 2
MaxClock == 2
MaxAdaptCalls == 5
MaxWarpCalls == 2
MaxAsyncLog == 4
MaxAccesses == 1
MaxEntangled == 1
MaxMemoryLog == 3

(* values the host writes to Team.efficiency and WarpSystem.error_rate     *)
EffValues == {50, 80}
ErrValues == {0, 10, 11}
(* readings of psutil.cpu_percent() and psutil.virtual_memory().percent    *)
UsageValues == {90, 91}

(* ---------------------------------------------------------------------- *)
(* Program constants                                                       *)
(* ---------------------------------------------------------------------- *)
INITIALIZATION == 1
CAPTURING_COHESION == 2
ADVERSARIAL_CORTEX == 3
SECONDARY_HYPER_COMPRESSION == 4
WARP_DRIVE == 5

max_complexity == 100
max_error_rate == 10
window_size == 100
stability_check_interval == 10
efficiency_threshold == 80
efficiency_duration == 3
complexity_step == 10
cpu_threshold == 90
memory_threshold == 90
initial_efficiency == 50

Teams == 1..5

VARIABLES
    phase,                     \* self.phase: [isObj, value]
    is_active,                 \* all_teams["team<i>"].is_active
    efficiency,                \* all_teams["team<i>"].efficiency
    current_phase_start_time,  \* self.current_phase_start_time
    is_light_speed,            \* self.is_light_speed
    complexity_score,          \* self.complexity_score
    error_rate,                \* self.error_rate
    now,                       \* the clock read by time.time()
    loop,                      \* position of _process_phase: "idle" (never
                               \* started), "running", "done" (break),
                               \* "raised" (left by an exception)
    exc,                       \* the last exception that ended the loop
    lastStep,                  \* what the last orchestrator step did
    phase_began                \* history: when self.phase last changed or
                               \* the run was started

(* ---------------------------------------------------------------------- *)
(* State of the agent's other components (ARIELAgent.__init__):            *)
(* SelfHealingSystem, EmotionalState, IncentiveSystem, the memory bank     *)
(* and the decision parameters.                                            *)
(*                                                                         *)
(* Numbers that are floats in the program are exact rationals [n, d] in    *)
(* lowest terms with d > 0.  Strings that the program searches (error      *)
(* types, issue labels, strategy keys, metric names) are sequences of      *)
(* characters, so that "in", startswith and slicing are the real           *)
(* operations.                                                             *)
(* ---------------------------------------------------------------------- *)
VARIABLES
    health_metrics,            \* SelfHealingSystem.health_metrics, by index
                               \* in dict order (MetricNames)
    error_log,                 \* SelfHealingSystem.error_log (deque)
    emotional_state,           \* agent.emotional_state, field -> value
    memory,                    \* agent.memory: [values, access_history,
                               \* entanglement_map]
    decision_threshold,        \* agent.decision_threshold
    exploration_rate,          \* agent.exploration_rate
    reward_scaling,            \* IncentiveSystem.reward_scaling
    penalty_scaling,           \* IncentiveSystem.penalty_scaling
    reward_history,            \* IncentiveSystem.reward_history
    emotion_updates,           \* history: how many times update_emotion
                               \* has run to its end
    returned                   \* the last call made on these components
                               \* and what it returned

wvars == <<phase, is_active, efficiency, current_phase_start_time,
           is_light_speed, complexity_score, error_rate, now, loop, exc,
           lastStep, phase_began>>

hvars == <<health_metrics, error_log, emotional_state, memory,
           decision_threshold, exploration_rate, reward_scaling,
           penalty_scaling, reward_history, emotion_updates, returned>>

(* history of the calls made on the incentive system *)
VARIABLES
    adapt_calls,               \* how many times adapt_incentives has run
    task_history,              \* TaskDiversityTracker.task_history
    tasks                      \* the heal() coroutines: where each one is
                               \* (not started, suspended at an await,
                               \* returned) and its local variables

avars == <<adapt_calls, task_history, tasks>>

vars == <<wvars, hvars, avars>>

(* ---------------------------------------------------------------------- *)
(* Exact arithmetic on rationals                                           *)
(* ---------------------------------------------------------------------- *)
Abs(x) == IF x < 0 THEN -x ELSE x

RECURSIVE GCD(_, _)
GCD(a, b) == IF b = 0 THEN a ELSE GCD(b, a % b)

(* n/d in lowest terms, d > 0 *)
Frac(n, d) ==
    LET g == GCD(Abs(n), d) IN [n |-> n \div g, d |-> d \div g]

R(k) == [n |-> k, d |-> 1]

(* the least common denominator of a and b *)
LCD(a, b) == (a.d \div GCD(a.d, b.d)) * b.d

(* the numerator of a over the denominator l, a multiple of a.d *)
NumOver(a, l) == a.n * (l \div a.d)

RAdd(a, b) == Frac(NumOver(a, LCD(a, b)) + NumOver(b, LCD(a, b)), LCD(a, b))
RSub(a, b) == Frac(NumOver(a, LCD(a, b)) - NumOver(b, LCD(a, b)), LCD(a, b))
(* cancelling across before multiplying keeps the products small *)
RMul(a, b) ==
    Frac((a.n \div GCD(Abs(a.n), b.d)) * (b.n \div GCD(Abs(b.n), a.d)),
         (a.d \div GCD(Abs(b.n), a.d)) * (b.d \div GCD(Abs(a.n), b.d)))
RNeg(a) == [n |-> -a.n, d |-> a.d]
(* a / k for an integer k > 0 *)
RDivInt(a, k) == Frac(a.n, a.d * k)
RLt(a, b) == NumOver(a, LCD(a, b)) < NumOver(b, LCD(a, b))
RLeq(a, b) == NumOver(a, LCD(a, b)) <= NumOver(b, LCD(a, b))
RMin(a, b) == IF RLeq(a, b) THEN a ELSE b
RMax(a, b) == IF RLeq(a, b) THEN b ELSE a
RAbs(a) == [n |-> Abs(a.n), d |-> a.d]

(* ---------------------------------------------------------------------- *)
(* Strings as character sequences                                          *)
(* ---------------------------------------------------------------------- *)
(* Python's "a in b" on strings *)
IsSubstring(a, b) ==
    \E i \in 0..(Len(b) - Len(a)) : \A j \in 1..Len(a) : b[i + j] = a[j]

(* b.startswith(a) *)
StartsWith(b, a) == Len(a) <= Len(b) /\ \A j \in 1..Len(a) : b[j] = a[j]

(* b[k:] *)
DropChars(b, k) == SubSeq(b, k + 1, Len(b))

str_critical_ == <<"c","r","i","t","i","c","a","l","_">>
str_recurring_ == <<"r","e","c","u","r","r","i","n","g","_">>

str_memory_integrity == <<"m","e","m","o","r","y","_","i","n","t","e","g","r","i","t","y">>
str_emotional_balance == <<"e","m","o","t","i","o","n","a","l","_","b","a","l","a","n","c","e">>
str_resource_efficiency == <<"r","e","s","o","u","r","c","e","_","e","f","f","i","c","i","e","n","c","y">>
str_decision_quality == <<"d","e","c","i","s","i","o","n","_","q","u","a","l","i","t","y">>
str_communication_reliability == <<"c","o","m","m","u","n","i","c","a","t","i","o","n","_","r","e","l","i","a","b","i","l","i","t","y">>

str_memory_corruption == <<"m","e","m","o","r","y","_","c","o","r","r","u","p","t","i","o","n">>
str_memory_leak == <<"m","e","m","o","r","y","_","l","e","a","k">>
str_emotional_instability == <<"e","m","o","t","i","o","n","a","l","_","i","n","s","t","a","b","i","l","i","t","y">>
str_emotional_deadlock == <<"e","m","o","t","i","o","n","a","l","_","d","e","a","d","l","o","c","k">>
str_resource_depletion == <<"r","e","s","o","u","r","c","e","_","d","e","p","l","e","t","i","o","n">>
str_resource_contention == <<"r","e","s","o","u","r","c","e","_","c","o","n","t","e","n","t","i","o","n">>
str_decision_paralysis == <<"d","e","c","i","s","i","o","n","_","p","a","r","a","l","y","s","i","s">>
str_decision_oscillation == <<"d","e","c","i","s","i","o","n","_","o","s","c","i","l","l","a","t","i","o","n">>
str_communication_failure == <<"c","o","m","m","u","n","i","c","a","t","i","o","n","_","f","a","i","l","u","r","e">>
str_protocol_violation == <<"p","r","o","t","o","c","o","l","_","v","i","o","l","a","t","i","o","n">>

(* error types outside the category table *)
str_gpu_memory_corruption == <<"g","p","u","_","m","e","m","o","r","y","_","c","o","r","r","u","p","t","i","o","n">>
str_memory == <<"m","e","m","o","r","y">>

(* ---------------------------------------------------------------------- *)
(* SelfHealingSystem: tables                                               *)
(* ---------------------------------------------------------------------- *)
error_log_maxlen == 100

(* health_metrics keys, in dict order *)
MetricNames ==
    <<str_memory_integrity, str_emotional_balance, str_resource_efficiency,
      str_decision_quality, str_communication_reliability>>

Metrics == 1..5

(* keys cut down to the first word of the metric each strategy raises *)
StrategyKeysMetricStems ==
    <<SubSeq(str_memory_integrity, 1, 6), SubSeq(str_emotional_balance, 1, 9),
      SubSeq(str_resource_efficiency, 1, 8), SubSeq(str_decision_quality, 1, 8),
      SubSeq(str_communication_reliability, 1, 13)>>

(* recovery_strategies keys, in dict order; strategy k raises metric k *)
StrategyKeys ==
    <<str_memory_corruption, str_emotional_instability,
      str_resource_depletion, str_decision_paralysis,
      str_communication_failure>>

(* the if/elif chain of log_error: the metric an error type lowers, 0 if   *)
(* the type is in none of the lists                                        *)
CategoryOfFirstOnly(ty) ==
    CASE ty = str_memory_corruption -> 1
      [] ty = str_emotional_instability -> 2
      [] ty = str_resource_depletion -> 3
      [] ty = str_decision_paralysis -> 4
      [] ty = str_communication_failure -> 5
      [] OTHER -> 0

CategoryOf(ty) ==
    CASE ty \in {str_memory_corruption, str_memory_leak} -> 1
      [] ty \in {str_emotional_instability, str_emotional_deadlock} -> 2
      [] ty \in {str_resource_depletion, str_resource_contention} -> 3
      [] ty \in {str_decision_paralysis, str_decision_oscillation} -> 4
      [] ty \in {str_communication_failure, str_protocol_violation} -> 5
      [] OTHER -> 0

(* ---------------------------------------------------------------------- *)
(* EmotionalState                                                          *)
(* ---------------------------------------------------------------------- *)
EmotionOrder ==
    <<"joy", "sadness", "fear", "anger", "trust", "disgust", "anticipation",
      "surprise">>

Emotions == {EmotionOrder[i] : i \in 1..8}

DerivedMetrics == {"stability", "adaptability", "social_alignment"}

(* the methods the class defines *)
EmotionMethods ==
    {"__post_init__", "update_derived_metrics", "update_emotion",
     "get_dominant_emotion", "get_emotional_vector", "emotional_distance"}

(* the attributes an EmotionalState object has from @dataclass and from    *)
(* object: hasattr is true of each, and none of them can be added to a     *)
(* float                                                                   *)
EmotionObjectAttributes ==
    {"__annotations__", "__class__", "__dataclass_fields__",
     "__dataclass_params__", "__delattr__", "__dict__", "__dir__", "__doc__",
     "__eq__", "__format__", "__ge__", "__getattribute__", "__getstate__",
     "__gt__", "__hash__", "__init__", "__init_subclass__", "__le__",
     "__lt__", "__match_args__", "__module__", "__ne__", "__new__",
     "__reduce__", "__reduce_ex__", "__repr__", "__setattr__", "__sizeof__",
     "__str__", "__subclasshook__", "__weakref__"}

default_decay == Frac(9, 10)

(* update_derived_metrics *)
UpdateDerivedMetrics(e) ==
    [e EXCEPT
       !["stability"] =
           RDivInt(RSub(RAdd(e["joy"], e["trust"]),
                        RAdd(e["fear"], e["anger"])), 2),
       !["adaptability"] =
           RDivInt(RSub(RAdd(e["anticipation"], e["surprise"]),
                        e["sadness"]), 2),
       !["social_alignment"] = RSub(e["trust"], e["disgust"])]

(* EmotionalState(): all eight intensities 50, then __post_init__ *)
InitialEmotionalState ==
    UpdateDerivedMetrics(
        [f \in Emotions \cup DerivedMetrics |->
            IF f \in Emotions THEN R(50) ELSE R(0)])

Clamp0to100(x) == RMax(R(0), RMin(R(100), x))

(* what update_emotion raises: "none" when it runs to the end *)
UpdateEmotionRaises(name) ==
    IF name \in Emotions \cup DerivedMetrics THEN "none"
    ELSE IF name \in EmotionMethods \cup EmotionObjectAttributes
         THEN "TypeError"
    ELSE "ValueError"

(* update_emotion(name, value, decay) when it does not raise *)
UpdateEmotionNoClamp(e, name, value, decay) ==
    LET set == [e EXCEPT ![name] = RAdd(e[name], value)]
        dec == [f \in DOMAIN set |->
                  IF f \in Emotions /\ f # name
                  THEN RMul(set[f], decay) ELSE set[f]]
    IN UpdateDerivedMetrics(dec)

UpdateEmotion(e, name, value, decay) ==
    LET set == [e EXCEPT ![name] = Clamp0to100(RAdd(e[name], value))]
        dec == [f \in DOMAIN set |->
                  IF f \in Emotions /\ f # name
                  THEN RMul(set[f], decay) ELSE set[f]]
    IN UpdateDerivedMetrics(dec)

(* ---------------------------------------------------------------------- *)
(* Stable sort, descending by key: sorted(xs, key=..., reverse=True)       *)
(* ---------------------------------------------------------------------- *)
(* Op applied to the value of v: v is evaluated once, however often Op    *)
(* refers to its argument                                                  *)
OnValue(Op(_), v) == CHOOSE r \in {Op(x) : x \in {v}} : TRUE

(* for x in xs: acc = Step(acc, x), starting from init. The loop is split *)
(* in halves so that the nesting of the evaluation stays logarithmic in    *)
(* Len(xs); the steps are applied left to right, one per element.          *)
FoldLeft(Step(_, _), init, xs) ==
    LET RECURSIVE Go(_, _, _)
        Go(acc, lo, hi) ==
          IF lo > hi THEN acc
          ELSE IF lo = hi THEN Step(acc, xs[lo])
          ELSE OnValue(LAMBDA mid :
                         OnValue(LAMBDA left : Go(left, mid + 1, hi),
                                 Go(acc, lo, mid)),
                       (lo + hi) \div 2)
    IN OnValue(LAMBDA first : Go(first, 1, Len(xs)), init)

(* x goes after every element whose key is >= its own *)
InsertDesc(Key(_), sorted, x) ==
    LET pos == Cardinality({i \in 1..Len(sorted) :
                               RLeq(Key(x), Key(sorted[i]))})
    IN SubSeq(sorted, 1, pos) \o <<x>> \o SubSeq(sorted, pos + 1, Len(sorted))

(* x goes before every element whose key is <= its own: equal keys end up  *)
(* in reverse order                                                        *)
SortDescByUnstable(Key(_), xs) ==
    LET Ins(sorted, x) ==
          LET pos == Cardinality({i \in 1..Len(sorted) :
                                     RLt(Key(x), Key(sorted[i]))})
          IN SubSeq(sorted, 1, pos) \o <<x>>
               \o SubSeq(sorted, pos + 1, Len(sorted))
        Sorted(ys) ==
          LET F[i \in 0..Len(ys)] ==
                IF i = 0 THEN <<>>
                ELSE OnValue(LAMBDA sorted : Ins(sorted, ys[i]), F[i - 1])
          IN F[Len(ys)]
    IN OnValue(LAMBDA ys : Sorted(ys), xs)

SortDescBy(Key(_), xs) ==
    LET Sorted(ys) ==
          LET F[i \in 0..Len(ys)] ==
                IF i = 0 THEN <<>>
                ELSE OnValue(LAMBDA sorted : InsertDesc(Key, sorted, ys[i]),
                             F[i - 1])
          IN F[Len(ys)]
    IN OnValue(LAMBDA ys : Sorted(ys), xs)

(* ---------------------------------------------------------------------- *)
(* SelfHealingSystem.log_error                                             *)
(* ---------------------------------------------------------------------- *)
(* the healing-relevant state of the agent, as a record *)
HS == [health |-> health_metrics, log |-> error_log,
       emo |-> emotional_state, memory |-> memory,
       threshold |-> decision_threshold, exploration |-> exploration_rate,
       updates |-> emotion_updates, time |-> now]

(* deque(maxlen=100).append *)
DequeAppendDropNewest(log, e) ==
    IF Len(log) >= error_log_maxlen THEN log ELSE Append(log, e)

DequeAppend(log, e) ==
    IF Len(log) >= error_log_maxlen THEN Append(Tail(log), e)
    ELSE Append(log, e)

LogErrorState(h, ty, sev, details, t) ==
    LET entry == [type |-> ty, severity |-> sev, timestamp |-> t,
                  details |-> details, healed |-> FALSE]
        m == CategoryOf(ty)
    IN [h EXCEPT
          !.log = DequeAppend(h.log, entry),
          !.health = IF m = 0 THEN @
                     ELSE [@ EXCEPT ![m] = RMax(R(0), RSub(@, sev))]]

(* ---------------------------------------------------------------------- *)
(* SelfHealingSystem.diagnose                                              *)
(* ---------------------------------------------------------------------- *)
Severity(issue) == issue.severity

(* a critical issue has no "count" key: count 0 stands for its absence *)
CriticalIssue(i, value) ==
    [type |-> str_critical_ \o MetricNames[i],
     severity |-> RMul(Frac(RSub(R(50), value).n, RSub(R(50), value).d * 50),
                       R(10)),
     count |-> 0]

CriticalThreshold(value) == RLt(value, R(50))

CriticalIssues(health) ==
    LET F[i \in 0..5] ==
          IF i = 0 THEN <<>>
          ELSE IF CriticalThreshold(health[i])
               THEN Append(F[i - 1], CriticalIssue(i, health[i]))
               ELSE F[i - 1]
    IN F[5]

(* one more entry e counted into the per-type counts cs *)
AddErrorCount(cs, e) ==
    IF \E j \in 1..Len(cs) : cs[j].type = e.type
    THEN LET j == CHOOSE j \in 1..Len(cs) : cs[j].type = e.type
         IN [cs EXCEPT ![j] = [@ EXCEPT !.count = @ + 1,
                                        !.total = RAdd(@, e.severity)]]
    ELSE Append(cs, [type |-> e.type, count |-> 1, total |-> e.severity])

ErrorCountsWithHealed(log) == FoldLeft(AddErrorCount, <<>>, log)

(* error_counts: one [type, count, total] per type with an unhealed entry, *)
(* in the order of each type's first unhealed entry                        *)
ErrorCounts(log) ==
    LET Count(cs, e) == IF e.healed THEN cs ELSE AddErrorCount(cs, e)
    IN FoldLeft(Count, <<>>, log)

(* the recurring issues of the per-type counts cs *)
RecurringOf(cs) ==
    LET F[i \in 0..Len(cs)] ==
          IF i = 0 THEN <<>>
          ELSE IF cs[i].count >= 3
               THEN Append(F[i - 1],
                           [type |-> str_recurring_ \o cs[i].type,
                            severity |-> RDivInt(cs[i].total, cs[i].count),
                            count |-> cs[i].count])
               ELSE F[i - 1]
    IN F[Len(cs)]

RecurringIssues(log) == OnValue(LAMBDA cs : RecurringOf(cs), ErrorCounts(log))

DiagnoseTiesReversed(health, log) ==
    SortDescByUnstable(Severity,
                       CriticalIssues(health) \o RecurringIssues(log))

Diagnose(health, log) ==
    SortDescBy(Severity, CriticalIssues(health) \o RecurringIssues(log))

(* ---------------------------------------------------------------------- *)
(* Recovery strategies.  Each returns the state it leaves and its result   *)
(* string.                                                                 *)
(* ---------------------------------------------------------------------- *)
Raised(h, k, gain) == [h EXCEPT !.health[k] = RAdd(@, gain)]

(* QuantumMemoryBank(): ten cells, all 0, an empty access history and an   *)
(* entanglement map of zeros. The map is kept as the set of its non-zero   *)
(* entries <<i, j, strength>>. The amplitudes store() also writes are      *)
(* cosines and sines that nothing reads; they are not kept.                *)
memory_size == 10
access_history_maxlen == 100

Cells == 0..(memory_size - 1)

InitialMemory ==
    [values |-> [i \in Cells |-> R(0)], access_history |-> <<>>,
     entanglement_map |-> {}]

(* max(0, min(1, x)) *)
Clamp0to1(x) == RMax(R(0), RMin(R(1), x))

(* access_history.append on a deque(maxlen=100) *)
AccessAppend(history, e) ==
    IF Len(history) >= access_history_maxlen THEN Append(Tail(history), e)
    ELSE Append(history, e)

(* what store and retrieve raise for an index *)
IndexRaises(index) == IF index \in Cells THEN "none" ELSE "ValueError"

(* store(index, value) at time t, for an index in range *)
Store(m, index, value, t) ==
    [m EXCEPT !.values[index] = Clamp0to1(RDivInt(value, 100)),
              !.access_history =
                  AccessAppend(@, [op |-> "store", index |-> index,
                                   time |-> t])]

(* what retrieve(index) returns when random.gauss gives noise *)
RetrieveValue(m, index, noise) ==
    RMul(Clamp0to1(RAdd(m.values[index], noise)), R(100))

(* what retrieve(index) at time t leaves, for an index in range *)
Retrieve(m, index, t) ==
    [m EXCEPT !.access_history =
                  AccessAppend(@, [op |-> "retrieve", index |-> index,
                                   time |-> t])]

(* entanglement_map[i, j] *)
Entanglement(m, i, j) ==
    IF \E e \in m.entanglement_map : e[1] = i /\ e[2] = j
    THEN (CHOOSE e \in m.entanglement_map : e[1] = i /\ e[2] = j)[3]
    ELSE R(0)

(* entanglement_map[i, j] = strength *)
SetEntanglement(map, i, j, strength) ==
    {e \in map : ~(e[1] = i /\ e[2] = j)}
      \cup (IF strength = R(0) THEN {} ELSE {<<i, j, strength>>})

(* what entangle_memories raises *)
EntangleRaises(index1, index2) ==
    IF index1 \in Cells /\ index2 \in Cells THEN "none" ELSE "ValueError"

(* entangle_memories(index1, index2, strength) without qiskit: both cells  *)
(* move towards their average, the second after the first was written      *)
EntangleMemories(m, index1, index2, strength) ==
    LET avg == RDivInt(RAdd(m.values[index1], m.values[index2]), 2)
        keep == RSub(R(1), strength)
        first == [m.values EXCEPT ![index1] =
                     RAdd(RMul(keep, @), RMul(strength, avg))]
        second == [first EXCEPT ![index2] =
                      RAdd(RMul(keep, @), RMul(strength, avg))]
    IN [m EXCEPT !.values = second,
                 !.entanglement_map =
                     SetEntanglement(
                         SetEntanglement(@, index1, index2, strength),
                         index2, index1, strength)]

(* get_access_patterns: how many entries of the history name each cell *)
GetAccessPatterns(m) ==
    [i \in Cells |->
        Cardinality({k \in 1..Len(m.access_history) :
                        m.access_history[k].index = i})]

(* where sorted(range(size), key=counts, reverse=True) puts cell i, from 0: *)
(* after the cells with more accesses and after the lower cells with as    *)
(* many (the sort is stable)                                               *)
NewIndex(counts, i) ==
    Cardinality({j \in Cells : \/ counts[j] > counts[i]
                               \/ (counts[j] = counts[i] /\ j < i)})

(* optimize_layout *)
OptimizeLayout(m) ==
    LET Moved(counts) ==
          [m EXCEPT
             !.values = [n \in Cells |->
                           m.values[CHOOSE i \in Cells :
                                       NewIndex(counts, i) = n]],
             !.entanglement_map =
                 {<<NewIndex(counts, e[1]), NewIndex(counts, e[2]), e[3]>> :
                     e \in m.entanglement_map}]
    IN OnValue(LAMBDA counts : Moved(counts), GetAccessPatterns(m))

(* the cells _heal_memory_corruption backs up and restores *)
CriticalIndices(m) ==
    {i \in Cells : RLt(Frac(7, 10), m.values[i])}

(* the elements of a set of cells in increasing order *)
Ascending(S) ==
    [k \in 1..Cardinality(S) |->
        CHOOSE i \in S : Cardinality({j \in S : j < i}) = k - 1]

(* what random.gauss(0, 0.05) gives in retrieve *)
GaussNoises == {Frac(-2, 5), R(0), Frac(1, 20)}

(* the random draws of one _heal_memory_corruption: hit holds the cells for *)
(* which random.random() < severity / 10, certain from severity 10 on, and  *)
(* noise the random.gauss values of the backup reads, in their order        *)
NoDraw == [hit |-> {}, noise |-> <<>>]

HitOutcomes(sev) == IF RLeq(R(10), sev) THEN {Cells} ELSE SUBSET Cells

NoiseOutcomes(m) ==
    [1..Cardinality(CriticalIndices(m)) -> GaussNoises]

Result(text) == [text |-> text, emotions |-> <<>>]

(* the deep branch: backup reads, reset loop, restore *)
DeepMemoryHealing(m, sev, draw, t) ==
    LET critical == Ascending(CriticalIndices(m))
        Read(mem, i) == Retrieve(mem, i, t)
        Reset(mem, i) == Store(mem, i, R(0), t)
        Restore(mem, k) ==
            Store(mem, critical[k],
                  RetrieveValue(m, critical[k], draw.noise[k]), t)
        read == FoldLeft(Read, m, critical)
        reset == FoldLeft(Reset, read,
                          Ascending(draw.hit \ CriticalIndices(m)))
    IN FoldLeft(Restore, reset, [k \in 1..Len(critical) |-> k])

HealMemoryCorruption(h, sev, draw) ==
    LET Healed(opt) ==
          IF RLt(R(7), sev)
          THEN [state |->
                   Raised([h EXCEPT !.memory =
                              DeepMemoryHealing(opt, sev, draw, h.time)],
                          1, RMin(R(30), RMul(sev, R(3)))),
                result |-> Result("Deep memory healing performed")]
          ELSE [state |-> Raised([h EXCEPT !.memory = opt], 1,
                                 RMin(R(15), RMul(sev, R(2)))),
                result |-> Result("Memory layout optimization performed")]
    IN OnValue(LAMBDA opt : Healed(opt), OptimizeLayout(h.memory))

EmotionValue(x) == x.value

(* np.median of the eight intensities *)
Median8(e) ==
    OnValue(LAMBDA srt : RDivInt(RAdd(srt[4].value, srt[5].value), 2),
            SortDescBy(EmotionValue,
                       [i \in 1..8 |-> [value |-> e[EmotionOrder[i]]]]))

Deviation(x) == x.deviation

(* the three emotions deviating most from the median, in the order of      *)
(* sorted(deviations.items(), key=deviation, reverse=True)[:3]             *)
ExtremeEmotions(e) ==
    LET Devs(med) == [i \in 1..8 |->
                        [name |-> EmotionOrder[i],
                         deviation |-> RAbs(RSub(e[EmotionOrder[i]], med))]]
    IN SubSeq(SortDescBy(Deviation, OnValue(LAMBDA med : Devs(med),
                                            Median8(e))), 1, 3)

(* the three update_emotion calls that pull the extreme emotions ext       *)
(* towards the median med                                                  *)
Rebalance(emo, med, ext, factor) ==
    LET Pull(e, name) ==
          UpdateEmotion(e, name, RMul(RSub(med, e[name]), factor),
                        default_decay)
        F[i \in 0..3] ==
          IF i = 0 THEN emo
          ELSE OnValue(LAMBDA e : Pull(e, ext[i].name), F[i - 1])
    IN F[3]

HealEmotionalInstability(h, sev) ==
    LET factor == RMin(Frac(1, 2), RDivInt(sev, 10))
        With(med, ext) ==
          [state |-> Raised([h EXCEPT
                               !.emo = Rebalance(@, med, ext, factor),
                               !.updates = @ + 3], 2,
                            RMin(R(25), RMul(sev, Frac(5, 2)))),
           result |-> [text |-> "Emotional rebalancing performed on",
                       emotions |-> [i \in 1..3 |-> ext[i].name]]]
    IN OnValue(LAMBDA med :
                 OnValue(LAMBDA ext : With(med, ext), ExtremeEmotions(h.emo)),
               Median8(h.emo))

HealResourceDepletion(h, sev) ==
    IF RLt(R(5), sev)
    THEN [state |-> Raised(h, 3, RMin(R(20), RMul(sev, R(2)))),
          result |-> Result("Major resource reallocation performed")]
    ELSE [state |-> Raised(h, 3, RMin(R(10), sev)),
          result |-> Result("Resource usage optimization performed")]

HealDecisionParalysis(h, sev) ==
    LET reset == [h EXCEPT !.threshold = Frac(6, 10)] IN
    IF RLt(R(6), sev)
    THEN [state |-> Raised([reset EXCEPT !.exploration =
                               RMin(Frac(3, 10), RAdd(@, RDivInt(sev, 20)))],
                           4, RMin(R(30), RMul(sev, R(3)))),
          result |-> Result("Decision system reset with increased exploration")]
    ELSE [state |-> Raised(reset, 4, RMin(R(15), RMul(sev, Frac(3, 2)))),
          result |-> Result("Decision thresholds reset")]

HealCommunicationFailure(h, sev) ==
    [state |-> Raised(h, 5, RMin(R(25), RMul(sev, Frac(5, 2)))),
     result |-> Result("Communication protocols reset and reinitialized")]

ApplyStrategy(k, h, sev, resets) ==
    CASE k = 1 -> HealMemoryCorruption(h, sev, resets)
      [] k = 2 -> HealEmotionalInstability(h, sev)
      [] k = 3 -> HealResourceDepletion(h, sev)
      [] k = 4 -> HealDecisionParalysis(h, sev)
      [] k = 5 -> HealCommunicationFailure(h, sev)

(* ---------------------------------------------------------------------- *)
(* SelfHealingSystem.heal                                                  *)
(* ---------------------------------------------------------------------- *)
(* the core error type of an issue label *)
CoreErrorType(label) ==
    IF StartsWith(label, str_critical_) THEN DropChars(label, 9)
    ELSE IF StartsWith(label, str_recurring_) THEN DropChars(label, 10)
    ELSE label

(* the first strategy, in dict order, whose key is in the error type; 0 if *)
(* there is none                                                           *)
FindStrategy(errorType) ==
    IF \E k \in 1..5 : IsSubstring(StrategyKeys[k], errorType)
    THEN CHOOSE k \in 1..5 :
            /\ IsSubstring(StrategyKeys[k], errorType)
            /\ \A j \in 1..(k - 1) : ~IsSubstring(StrategyKeys[j], errorType)
    ELSE 0

(* issues[:3] *)
TopIssuesAll(issues) == issues

TopIssues(issues) == SubSeq(issues, 1, IF Len(issues) < 3 THEN Len(issues) ELSE 3)

(* whether the strategy chosen for an issue takes its random reset loop *)
IsDeepMemoryHealing(issue) ==
    /\ FindStrategy(CoreErrorType(issue.type)) = 1
    /\ RLt(R(7), issue.severity)

(* the draws open to the strategy of one issue on the memory m. A cell can  *)
(* only become critical by a restore, so m has at least as many critical    *)
(* cells as any memory a later strategy of the same heal() finds            *)
DrawsFor(m, issue) ==
    IF IsDeepMemoryHealing(issue)
    THEN {[hit |-> c, noise |-> n] :
             c \in HitOutcomes(issue.severity), n \in NoiseOutcomes(m)}
    ELSE {NoDraw}

(* the outcomes of the random draws of one heal(): one draw for each of    *)
(* the issues it considers                                                 *)
ResetOutcomes(h) ==
    LET Outcomes(top) ==
          LET F[i \in 0..Len(top)] ==
                IF i = 0 THEN {<<>>}
                ELSE LET choices == DrawsFor(h.memory, top[i])
                     IN {Append(r, n) : r \in F[i - 1], n \in choices}
          IN F[Len(top)]
    IN OnValue(LAMBDA top : Outcomes(top),
               TopIssues(Diagnose(h.health, h.log)))

(* the loop over issues[:3]: the state and the actions after the first i   *)
(* issues                                                                  *)
(* one pass of the loop body: acc is the state and the actions so far, n   *)
(* the random draws of the strategy                                        *)
HealStep(acc, issue, n) ==
    LET k == FindStrategy(CoreErrorType(issue.type)) IN
    IF k = 0 THEN acc
    ELSE OnValue(LAMBDA r : [state |-> r.state,
                             actions |-> Append(acc.actions,
                                                [issue |-> issue.type,
                                                 strategy |-> StrategyKeys[k],
                                                 result |-> r.result])],
                 ApplyStrategy(k, acc.state, issue.severity, n))

HealLoop(h, issues, resets) ==
    LET Loop(top) ==
          LET F[i \in 0..Len(top)] ==
                IF i = 0 THEN [state |-> h, actions |-> <<>>]
                ELSE OnValue(LAMBDA acc : HealStep(acc, top[i], resets[i]),
                             F[i - 1])
          IN F[Len(top)]
    IN OnValue(LAMBDA top : Loop(top), TopIssues(issues))

(* the marking pass over the log *)
MarkHealedExact(log, actions) ==
    [i \in 1..Len(log) |->
        IF ~log[i].healed
           /\ \E a \in 1..Len(actions) :
                 log[i].type = CoreErrorType(actions[a].issue)
        THEN [log[i] EXCEPT !.healed = TRUE] ELSE log[i]]

MarkHealed(log, actions) ==
    [i \in 1..Len(log) |->
        IF ~log[i].healed
           /\ \E a \in 1..Len(actions) :
                 IsSubstring(log[i].type, actions[a].issue)
        THEN [log[i] EXCEPT !.healed = TRUE] ELSE log[i]]

(* heal() without its early return *)
(* what heal() leaves and returns once its loop has ended in l *)
HealReturn(l) ==
    [state |-> [l.state EXCEPT !.log = MarkHealed(@, l.actions)],
     status |-> IF l.actions # <<>> THEN "healing_performed"
                ELSE "no_suitable_healing_strategy",
     actions |-> l.actions]

(* heal() without its early return *)
HealNoEarlyReturn(h, resets) ==
    OnValue(LAMBDA issues :
              OnValue(LAMBDA l : HealReturn(l), HealLoop(h, issues, resets)),
            Diagnose(h.health, h.log))

(* heal(), run from its first statement to its return: the state it leaves *)
(* and the dict it returns                                                 *)
Heal(h, resets) ==
    LET From(issues) ==
          IF issues = <<>>
          THEN [state |-> h, status |-> "healthy", actions |-> <<>>]
          ELSE OnValue(LAMBDA l : HealReturn(l), HealLoop(h, issues, resets))
    IN OnValue(LAMBDA issues : From(issues), Diagnose(h.health, h.log))

(* ---------------------------------------------------------------------- *)
(* IncentiveSystem                                                         *)
(* ---------------------------------------------------------------------- *)
RewardTypes == {"curiosity", "efficiency", "cooperation", "innovation"}

PenaltyTypes == {"error", "resource_waste", "conflict", "stagnation"}

(* the <type>_reward and <type>_penalty fields *)
BaseReward(type) ==
    CASE type = "curiosity" -> R(5)
      [] type = "efficiency" -> R(3)
      [] type = "cooperation" -> R(4)
      [] type = "innovation" -> R(6)

BasePenalty(type) ==
    CASE type = "error" -> R(-3)
      [] type = "resource_waste" -> R(-4)
      [] type = "conflict" -> R(-5)
      [] type = "stagnation" -> R(-2)

(* the two update_emotion calls apply_reward makes, in order *)
RewardUpdates(type, scaled) ==
    CASE type = "curiosity" ->
           <<[name |-> "surprise", value |-> RMul(scaled, Frac(1, 2))],
             [name |-> "joy", value |-> RMul(scaled, Frac(3, 10))]>>
      [] type = "efficiency" ->
           <<[name |-> "joy", value |-> RMul(scaled, Frac(4, 10))],
             [name |-> "trust", value |-> RMul(scaled, Frac(2, 10))]>>
      [] type = "cooperation" ->
           <<[name |-> "trust", value |-> RMul(scaled, Frac(1, 2))],
             [name |-> "joy", value |-> RMul(scaled, Frac(2, 10))]>>
      [] type = "innovation" ->
           <<[name |-> "surprise", value |-> RMul(scaled, Frac(3, 10))],
             [name |-> "joy", value |-> RMul(scaled, Frac(4, 10))]>>

(* the two update_emotion calls apply_penalty makes, in order *)
PenaltyUpdates(type, scaled) ==
    CASE type = "error" ->
           <<[name |-> "sadness", value |-> RMul(RNeg(scaled), Frac(4, 10))],
             [name |-> "surprise", value |-> RMul(RNeg(scaled), Frac(2, 10))]>>
      [] type = "resource_waste" ->
           <<[name |-> "disgust", value |-> RMul(RNeg(scaled), Frac(3, 10))],
             [name |-> "anger", value |-> RMul(RNeg(scaled), Frac(3, 10))]>>
      [] type = "conflict" ->
           <<[name |-> "anger", value |-> RMul(RNeg(scaled), Frac(1, 2))],
             [name |-> "fear", value |-> RMul(RNeg(scaled), Frac(2, 10))]>>
      [] type = "stagnation" ->
           <<[name |-> "sadness", value |-> RMul(RNeg(scaled), Frac(4, 10))],
             [name |-> "disgust", value |-> RMul(RNeg(scaled), Frac(2, 10))]>>

(* update_emotion called with the default decay for each of ups in turn *)
UpdateEmotions(e, ups) ==
    LET F[i \in 0..Len(ups)] ==
          IF i = 0 THEN e
          ELSE OnValue(LAMBDA prev : UpdateEmotion(prev, ups[i].name,
                                                   ups[i].value,
                                                   default_decay),
                       F[i - 1])
    IN F[Len(ups)]

(* apply_reward(type, magnitude, emotional_state) for a known type: the    *)
(* value it returns, the history and the emotional state it leaves         *)
ApplyRewardState(history, scaling, e, type, magnitude, t) ==
    LET scaled == RMul(RMul(BaseReward(type), magnitude), scaling) IN
    [scaled |-> scaled,
     history |-> Append(history, <<type, scaled, t>>),
     emo |-> UpdateEmotions(e, RewardUpdates(type, scaled))]

(* apply_penalty(type, magnitude, emotional_state) for a known type *)
ApplyPenaltyState(history, scaling, e, type, magnitude, t) ==
    LET scaled == RMul(RMul(BasePenalty(type), magnitude), scaling) IN
    [scaled |-> scaled,
     history |-> Append(history, <<type, scaled, t>>),
     emo |-> UpdateEmotions(e, PenaltyUpdates(type, scaled))]

(* hasattr(self, f"{type}_reward") is true of the four reward fields and   *)
(* of the methods apply_reward and get_total_reward; a method times a      *)
(* float raises TypeError                                                  *)
RewardMethodPrefixes == {"apply", "get_total"}

ApplyRewardRaises(type) ==
    IF type \in RewardTypes THEN "none"
    ELSE IF type \in RewardMethodPrefixes THEN "TypeError"
    ELSE "ValueError"

(* hasattr(self, f"{type}_penalty"): the four penalty fields and the       *)
(* method apply_penalty                                                    *)
PenaltyMethodPrefixes == {"apply"}

ApplyPenaltyRaises(type) ==
    IF type \in PenaltyTypes THEN "none"
    ELSE IF type \in PenaltyMethodPrefixes THEN "TypeError"
    ELSE "ValueError"

(* get_recent_rewards(time_window) at time t: the (type, value) pairs of   *)
(* the records no older than the window, in the order of the history       *)
GetRecentRewardsStrict(history, time_window, t) ==
    LET Keep(recent, rec) ==
          IF t - rec[3] < time_window
          THEN Append(recent, <<rec[1], rec[2]>>) ELSE recent
    IN FoldLeft(Keep, <<>>, history)

GetRecentRewards(history, time_window, t) ==
    LET Keep(recent, rec) ==
          IF t - rec[3] <= time_window
          THEN Append(recent, <<rec[1], rec[2]>>) ELSE recent
    IN FoldLeft(Keep, <<>>, history)

(* adapt_incentives(performance_trend): the two scaling factors it leaves *)
AdaptIncentivesNoClamp(reward, penalty, performance_trend) ==
    IF RLt(Frac(2, 10), performance_trend)
    THEN [reward |-> RMul(reward, Frac(95, 100)),
          penalty |-> RMul(penalty, Frac(105, 100))]
    ELSE IF RLt(performance_trend, Frac(-2, 10))
    THEN [reward |-> RMul(reward, Frac(105, 100)),
          penalty |-> RMul(penalty, Frac(95, 100))]
    ELSE [reward |-> reward, penalty |-> penalty]

AdaptIncentives(reward, penalty, performance_trend) ==
    IF RLt(Frac(2, 10), performance_trend)
    THEN [reward |-> RMax(Frac(1, 2), RMul(reward, Frac(95, 100))),
          penalty |-> RMin(Frac(3, 2), RMul(penalty, Frac(105, 100)))]
    ELSE IF RLt(performance_trend, Frac(-2, 10))
    THEN [reward |-> RMin(Frac(3, 2), RMul(reward, Frac(105, 100))),
          penalty |-> RMax(Frac(1, 2), RMul(penalty, Frac(95, 100)))]
    ELSE [reward |-> reward, penalty |-> penalty]

(* ---------------------------------------------------------------------- *)
(* ARIELAgent.__init__: the components other than the warp system          *)
(* ---------------------------------------------------------------------- *)
InitialHealth == [m \in Metrics |-> R(100)]

InitialHS ==
    [health |-> InitialHealth, log |-> <<>>, emo |-> InitialEmotionalState,
     memory |-> InitialMemory, threshold |-> Frac(6, 10),
     exploration |-> Frac(1, 10), updates |-> 0, time |-> 0]

(* the heal() coroutines that may be on the event loop *)
Tasks == {1, 2}

(* a coroutine: pc is where it is, top the issues[:3] it diagnosed, at the *)
(* index of the issue whose strategy is suspended, actions its             *)
(* actions_taken, status the status it returned; diagnosed and unhealed    *)
(* record the length of the log and the positions of the unhealed entries  *)
(* when it ran diagnose()                                                  *)
IdleTask ==
    [pc |-> "idle", top |-> <<>>, at |-> 0, actions |-> <<>>,
     status |-> "none", diagnosed |-> 0, unhealed |-> {}]

(* the call made last and what came of it: the exception it raised, if    *)
(* any, and its return value. heal() returns a status and an action list,  *)
(* diagnose() an issue list, the calls on the incentive system a value     *)
ReturnedValue(op, status, value) ==
    [op |-> op, status |-> status, actions |-> <<>>, issues |-> <<>>,
     value |-> value]

Returned(op, status, actions, issues) ==
    [op |-> op, status |-> status, actions |-> actions, issues |-> issues,
     value |-> <<>>]

AgentInit ==
    /\ health_metrics = InitialHealth
    /\ error_log = <<>>
    /\ emotional_state = InitialEmotionalState
    /\ memory = InitialMemory
    /\ decision_threshold = Frac(6, 10)
    /\ exploration_rate = Frac(1, 10)
    /\ reward_scaling = R(1)
    /\ penalty_scaling = R(1)
    /\ reward_history = <<>>
    /\ emotion_updates = 0
    /\ returned = Returned("none", "none", <<>>, <<>>)
    /\ adapt_calls = 0
    /\ task_history = <<>>
    /\ tasks = [t \in Tasks |-> IdleTask]

(* ---------------------------------------------------------------------- *)
(* Phase values                                                            *)
(* ---------------------------------------------------------------------- *)
(* a class attribute such as WarpPhase.INITIALIZATION: a plain int         *)
IntPhase(n) == [isObj |-> FALSE, value |-> n]

(* WarpPhase(n): the constructor looks n up in a dict with keys 1..5       *)
WarpPhaseCtorOk(n) == n \in 1..5
WarpPhase(n) == [isObj |-> TRUE, value |-> n]

(* self.phase == WarpPhase.<NAME>: int equality; an instance has no __eq__ *)
PhaseEquals(p, n) == (~p.isObj) /\ p.value = n

(* self.phase.value exists only on an instance                             *)
HasValueAttr(p) == p.isObj

(* the mutable part of a WarpSystem, as a record                           *)
WS == [phase |-> phase, is_active |-> is_active,
       timer |-> current_phase_start_time, light |-> is_light_speed,
       complexity |-> complexity_score, exc |-> "none"]

Raise(w, e) == [w EXCEPT !.exc = e]

(* ---------------------------------------------------------------------- *)
(* ResourceMonitor.is_overloaded                                           *)
(* ---------------------------------------------------------------------- *)
IsOverloadedAnd(cpu, mem) == cpu > cpu_threshold /\ mem > memory_threshold

IsOverloaded(cpu, mem) == cpu > cpu_threshold \/ mem > memory_threshold

(* ---------------------------------------------------------------------- *)
(* WarpSystem._check_stability                                             *)
(* ---------------------------------------------------------------------- *)
CheckStability(err) == ~(err > max_error_rate)

(* the guard of the stability check in _process_phase                      *)
StabilityDueAtLeast(w, t) == t - w.timer >= stability_check_interval

StabilityDue(w, t) == t - w.timer > stability_check_interval

(* ---------------------------------------------------------------------- *)
(* WarpSystem._combine_phase_results and _combine_light_speed_results: the *)
(* value returned or the exception raised. np.average(results, axis=0,     *)
(* weights=w) is sum(w[i] * results[i]) / sum(w); it raises                *)
(* ZeroDivisionError when the weights sum to zero and ValueError when      *)
(* there are not as many weights as results. np.mean of an empty list is   *)
(* nan                                                                     *)
(* ---------------------------------------------------------------------- *)
PhaseWeights == <<Frac(1, 10), Frac(2, 10), Frac(3, 10), Frac(4, 10)>>

RECURSIVE RSum(_)
RSum(xs) == IF xs = <<>> THEN R(0) ELSE RAdd(xs[1], RSum(Tail(xs)))

(* a / b for b > 0 *)
RDiv(a, b) == RMul(a, [n |-> b.d, d |-> b.n])

Combined(exc_, value) == [exc |-> exc_, value |-> value]

CombinePhaseResults(results) ==
    LET k == Len(results)
        weights == SubSeq(PhaseWeights, 1, IF k < 4 THEN k ELSE 4)
    IN IF Len(weights) # k THEN Combined("ValueError", <<>>)
       ELSE IF RSum(weights) = R(0) THEN Combined("ZeroDivisionError", <<>>)
       ELSE Combined("none",
                     <<RDiv(RSum([i \in 1..k |-> RMul(weights[i], results[i])]),
                            RSum(weights))>>)

CombineLightSpeedResults(results) ==
    IF results = <<>> THEN Combined("none", <<"nan">>)
    ELSE Combined("none", <<RDivInt(RSum(results), Len(results))>>)

(* TaskDiversityTracker.update *)
TaskDiversityUpdate(history, task) ==
    IF Len(history) + 1 > window_size THEN Tail(Append(history, task))
    ELSE Append(history, task)

(* get_active_teams: the active teams in the order of all_teams *)
RECURSIVE ActiveTeamsFrom(_, _)
ActiveTeamsFrom(active, i) ==
    IF i > 5 THEN <<>>
    ELSE IF active[i] THEN <<i>> \o ActiveTeamsFrom(active, i + 1)
    ELSE ActiveTeamsFrom(active, i + 1)

GetActiveTeams(active) == ActiveTeamsFrom(active, 1)

(* Team.process returns its input *)
TeamProcess(team, input_data) == input_data

(* process_with_warp: what it returns or raises *)
ProcessWithWarpResult(active, light, input_data) ==
    LET teams == GetActiveTeams(active)
        results == [i \in 1..Len(teams) |-> TeamProcess(teams[i], input_data)]
    IN IF light THEN CombineLightSpeedResults(results)
       ELSE CombinePhaseResults(results)

(* ---------------------------------------------------------------------- *)
(* WarpSystem._check_team_efficiency: the value returned and the state     *)
(* left behind (the timer is reset when the efficiency is below the        *)
(* threshold)                                                              *)
(* ---------------------------------------------------------------------- *)
CheckTeamEfficiencyNoDuration(w, eff, threshold, duration, t) ==
    eff >= threshold

CheckTeamEfficiency(w, eff, threshold, duration, t) ==
    eff >= threshold /\ t - w.timer >= duration

AfterCheckTeamEfficiency(w, eff, threshold, t) ==
    IF eff >= threshold THEN w ELSE [w EXCEPT !.timer = t]

(* ---------------------------------------------------------------------- *)
(* WarpSystem._advance_phase                                               *)
(* ---------------------------------------------------------------------- *)
AdvancePhase(w, t) ==
    IF ~HasValueAttr(w.phase) THEN Raise(w, "AttributeError")
    ELSE IF ~WarpPhaseCtorOk(w.phase.value + 1) THEN Raise(w, "KeyError")
    ELSE [w EXCEPT !.phase = WarpPhase(w.phase.value + 1),
                   !.is_active[w.phase.value + 1] = TRUE,
                   !.timer = t,
                   !.complexity = @ + complexity_step]

(* ---------------------------------------------------------------------- *)
(* WarpSystem._revert_phase                                                *)
(* ---------------------------------------------------------------------- *)
RevertPhaseNoFloor(w, t) ==
    [w EXCEPT !.phase = [isObj |-> w.phase.isObj, value |-> w.phase.value - 1],
              !.timer = t,
              !.complexity = @ - complexity_step]

RevertPhase(w, t) ==
    IF ~HasValueAttr(w.phase) THEN Raise(w, "AttributeError")
    ELSE IF w.phase.value > 1
         THEN [w EXCEPT !.phase = WarpPhase(w.phase.value - 1),
                        !.is_active[w.phase.value] = FALSE,
                        !.timer = t,
                        !.complexity = @ - complexity_step]
         ELSE w

(* ---------------------------------------------------------------------- *)
(* WarpSystem._initiate_warp_drive                                         *)
(* ---------------------------------------------------------------------- *)
InitiateWarpDrive(w) ==
    [w EXCEPT !.light = TRUE, !.is_active = [i \in Teams |-> TRUE]]

(* ---------------------------------------------------------------------- *)
(* One iteration of the while-loop of WarpSystem._process_phase.           *)
(* Result: the branch taken and the state after it.                        *)
(*   "throttle"  the monitor reported overload (continue)                  *)
(*   "revert"    the stability check failed, _revert_phase was called      *)
(*   "advance"   the efficiency check passed, _advance_phase was called    *)
(*   "warp"      phase == WARP_DRIVE, _initiate_warp_drive, break          *)
(*   "wait"      nothing fired                                             *)
(* ---------------------------------------------------------------------- *)
GatedPhase(p) ==
    PhaseEquals(p, INITIALIZATION) \/ PhaseEquals(p, CAPTURING_COHESION)
    \/ PhaseEquals(p, ADVERSARIAL_CORTEX)
    \/ PhaseEquals(p, SECONDARY_HYPER_COMPRESSION)

TickBranch(w, effs, err, cpu, mem, t) ==
    IF IsOverloaded(cpu, mem) THEN "throttle"
    ELSE IF StabilityDue(w, t) /\ ~CheckStability(err) THEN "revert"
    ELSE IF GatedPhase(w.phase)
         THEN IF CheckTeamEfficiency(w, effs[w.phase.value],
                                     efficiency_threshold,
                                     efficiency_duration, t)
              THEN "advance" ELSE "wait"
    ELSE IF PhaseEquals(w.phase, WARP_DRIVE) THEN "warp"
    ELSE "wait"

TickState(w, effs, err, cpu, mem, t) ==
    LET b == TickBranch(w, effs, err, cpu, mem, t) IN
    CASE b = "throttle" -> w
      [] b = "revert"   -> RevertPhase(w, t)
      [] b = "advance"  -> AdvancePhase(w, t)
      [] b = "warp"     -> InitiateWarpDrive(w)
      [] OTHER          ->
           IF GatedPhase(w.phase)
           THEN AfterCheckTeamEfficiency(w, effs[w.phase.value],
                                         efficiency_threshold, t)
           ELSE w

(* ---------------------------------------------------------------------- *)
(* WarpSystem.start_warp_sequence, up to the call of _process_phase        *)
(* ---------------------------------------------------------------------- *)
StartStateKeepTimer(w, t) ==
    [w EXCEPT !.phase = IntPhase(INITIALIZATION), !.is_active[1] = TRUE]

StartStateNoActivate(w, t) ==
    [w EXCEPT !.phase = IntPhase(INITIALIZATION), !.timer = t]

StartState(w, t) ==
    [w EXCEPT !.phase = IntPhase(INITIALIZATION),
              !.is_active[1] = TRUE,
              !.timer = t]

(* ---------------------------------------------------------------------- *)
(* State machine                                                           *)
(* ---------------------------------------------------------------------- *)
Install(w) ==
    /\ phase' = w.phase
    /\ is_active' = w.is_active
    /\ current_phase_start_time' = w.timer
    /\ is_light_speed' = w.light
    /\ complexity_score' = w.complexity

(* WarpSystem.__init__ and Team.__init__ *)
WarpInit ==
    /\ phase = IntPhase(INITIALIZATION)
    /\ is_active = [i \in Teams |-> FALSE]
    /\ efficiency = [i \in Teams |-> initial_efficiency]
    /\ current_phase_start_time = 0
    /\ is_light_speed = FALSE
    /\ complexity_score = 0
    /\ error_rate = 0
    /\ now = 0
    /\ loop = "idle"
    /\ exc = "none"
    /\ lastStep = "none"
    /\ phase_began = 0

(* ARIELAgent.__init__ *)
Init == WarpInit /\ AgentInit

(* start_warp_sequence is called when no loop is running on this object *)
Start ==
    /\ loop # "running"
    /\ Install(StartState(WS, now))
    /\ loop' = "running"
    /\ lastStep' = "start"
    /\ phase_began' = now
    /\ UNCHANGED exc
    /\ UNCHANGED <<efficiency, error_rate, now>>
    /\ UNCHANGED <<hvars, avars>>

(* one iteration of the loop, with the monitor reading cpu and mem *)
ProcessPhase(cpu, mem) ==
    /\ loop = "running"
    /\ LET b == TickBranch(WS, efficiency, error_rate, cpu, mem, now)
           w == TickState(WS, efficiency, error_rate, cpu, mem, now)
       IN /\ Install(w)
          /\ exc' = IF w.exc # "none" THEN w.exc ELSE exc
          /\ phase_began' = IF w.phase # phase THEN now ELSE phase_began
          /\ loop' = IF w.exc # "none" THEN "raised"
                     ELSE IF b = "warp" THEN "done"
                     ELSE "running"
          /\ lastStep' = b
    /\ UNCHANGED <<efficiency, error_rate, now>>
    /\ UNCHANGED <<hvars, avars>>

Tick == \E cpu \in UsageValues, mem \in UsageValues : ProcessPhase(cpu, mem)

(* the clock advances (time.sleep, scheduling) *)
TimePasses ==
    /\ now < MaxTime
    /\ now' = now + 1
    /\ UNCHANGED <<phase, is_active, efficiency, current_phase_start_time,
                   is_light_speed, complexity_score, error_rate, loop, exc,
                   lastStep, phase_began>>
    /\ UNCHANGED <<hvars, avars>>

(* the host writes a team's efficiency *)
SetEfficiency ==
    \E i \in Teams, e \in EffValues :
        /\ efficiency[i] # e
        /\ efficiency' = [efficiency EXCEPT ![i] = e]
        /\ UNCHANGED <<phase, is_active, current_phase_start_time,
                       is_light_speed, complexity_score, error_rate, now,
                       loop, exc, lastStep, phase_began>>
        /\ UNCHANGED <<hvars, avars>>

(* the host writes the error rate *)
SetErrorRate ==
    \E r \in ErrValues :
        /\ error_rate # r
        /\ error_rate' = r
        /\ UNCHANGED <<phase, is_active, efficiency, current_phase_start_time,
                       is_light_speed, complexity_score, now, loop, exc,
                       lastStep, phase_began>>
        /\ UNCHANGED <<hvars, avars>>

Next == Start \/ Tick \/ TimePasses \/ SetEfficiency \/ SetErrorRate

Spec == Init /\ [][Next]_vars

(* the loop keeps iterating while it runs, and the clock keeps advancing   *)
FairSpec == Spec /\ WF_vars(Tick) /\ WF_vars(TimePasses)

TypeOK ==
    /\ phase \in [isObj : BOOLEAN, value : Int]
    /\ is_active \in [Teams -> BOOLEAN]
    /\ efficiency \in [Teams -> EffValues]
    /\ current_phase_start_time \in 0..MaxTime
    /\ current_phase_start_time <= now
    /\ is_light_speed \in BOOLEAN
    /\ complexity_score \in Int
    /\ error_rate \in ErrValues
    /\ now \in 0..MaxTime
    /\ loop \in {"idle", "running", "done", "raised"}
    /\ exc \in {"none", "AttributeError", "KeyError"}
    /\ lastStep \in {"none", "start", "throttle", "revert", "advance",
                     "warp", "wait"}
    /\ phase_began \in 0..MaxTime
    /\ \A m \in Metrics : health_metrics[m] \in [n : Int, d : Nat \ {0}]
    /\ Len(error_log) <= error_log_maxlen
    /\ \A i \in 1..Len(error_log) :
          /\ error_log[i].healed \in BOOLEAN
          /\ error_log[i].severity \in [n : Nat, d : Nat \ {0}]
    /\ DOMAIN emotional_state = Emotions \cup DerivedMetrics
    /\ \A i \in Cells :
          RLeq(R(0), memory.values[i]) /\ RLeq(memory.values[i], R(1))
    /\ Len(memory.access_history) <= access_history_maxlen
    /\ decision_threshold = Frac(6, 10)
    /\ RLeq(exploration_rate, Frac(3, 10))
    /\ returned.op \in {"none", "log_error", "diagnose", "heal",
                        "update_emotion", "apply_reward", "apply_penalty",
                        "get_recent_rewards", "adapt_incentives",
                        "process_with_warp", "_combine_phase_results",
                        "store", "retrieve", "entangle_memories",
                        "optimize_layout"}
    /\ returned.status \in {"none", "healthy", "healing_performed",
                            "no_suitable_healing_strategy", "ValueError",
                            "TypeError"}
    /\ emotion_updates \in Nat
    /\ adapt_calls \in Nat
    /\ task_history \in Seq(Int)
    /\ DOMAIN tasks = Tasks
    /\ \A t \in Tasks : tasks[t].pc \in {"idle", "suspended", "done"}

(* ---------------------------------------------------------------------- *)
(* heal() as a coroutine. _heal_resource_depletion and                     *)
(* _heal_communication_failure await asyncio.sleep before they touch       *)
(* anything, which hands control to the event loop; the other strategies   *)
(* run without a suspension                                                *)
(* ---------------------------------------------------------------------- *)
SuspendingStrategies == {3, 5}

(* whether heal() started on h picks a strategy that suspends *)
HealSuspends(h) ==
    \E top \in {TopIssues(Diagnose(h.health, h.log))} :
       \E i \in 1..Len(top) :
          FindStrategy(CoreErrorType(top[i].type)) \in SuspendingStrategies

(* the outcomes of the random reset loops for the issues top *)
ResetOutcomesOf(m, top) ==
    LET F[i \in 0..Len(top)] ==
          IF i = 0 THEN {<<>>}
          ELSE LET choices == DrawsFor(m, top[i])
               IN {Append(r, n) : r \in F[i - 1], n \in choices}
    IN F[Len(top)]

(* the loop over issues[:3] from issue i on, up to the first await or the  *)
(* end of the loop: at is the index of the issue whose strategy is         *)
(* suspended, 0 when the loop has ended                                    *)
RECURSIVE HealFrom(_, _, _, _)
HealFrom(acc, top, i, resets) ==
    IF i > Len(top)
    THEN [state |-> acc.state, actions |-> acc.actions, at |-> 0]
    ELSE IF FindStrategy(CoreErrorType(top[i].type)) \in SuspendingStrategies
    THEN [state |-> acc.state, actions |-> acc.actions, at |-> i]
    ELSE OnValue(LAMBDA nxt : HealFrom(nxt, top, i + 1, resets),
                 HealStep(acc, top[i], resets[i]))

(* ---------------------------------------------------------------------- *)
(* Calls on the self-healing system                                        *)
(* ---------------------------------------------------------------------- *)
InstallHeal(h) ==
    /\ health_metrics' = h.health
    /\ error_log' = h.log
    /\ emotional_state' = h.emo
    /\ memory' = h.memory
    /\ decision_threshold' = h.threshold
    /\ exploration_rate' = h.exploration
    /\ emotion_updates' = h.updates

(* log_error(ty, sev, details) *)
LogError(ty, sev, details) ==
    /\ \E h \in {LogErrorState(HS, ty, sev, details, now)} : InstallHeal(h)
    /\ returned' = Returned("log_error", "none", <<>>, <<>>)
    /\ UNCHANGED <<reward_scaling, penalty_scaling, reward_history>>
    /\ UNCHANGED <<wvars, avars>>

(* diagnose() *)
DiagnoseCall ==
    /\ returned' = Returned("diagnose", "none", <<>>,
                            Diagnose(health_metrics, error_log))
    /\ UNCHANGED <<health_metrics, error_log, emotional_state, memory,
                   decision_threshold, exploration_rate, reward_scaling,
                   penalty_scaling, reward_history, emotion_updates>>
    /\ UNCHANGED <<wvars, avars>>

(* heal() when none of the strategies it picks reaches an await, that is   *)
(* when no action it records names a suspending strategy: the coroutine    *)
(* runs to its end without returning to the event loop. A call that        *)
(* suspends is HealStart followed by HealResume                            *)
HealCall ==
    \E resets \in ResetOutcomes(HS) :
      \E r \in {Heal(HS, resets)} :
        /\ \A a \in 1..Len(r.actions) :
              \A k \in SuspendingStrategies :
                 r.actions[a].strategy # StrategyKeys[k]
        /\ InstallHeal(r.state)
        /\ returned' = Returned("heal", r.status, r.actions, <<>>)
        /\ UNCHANGED <<reward_scaling, penalty_scaling, reward_history>>
        /\ UNCHANGED <<wvars, avars>>

(* ---------------------------------------------------------------------- *)
(* The self-healing system under a workload of a few error kinds and logs  *)
(* of up to MaxLog entries                                                 *)
(* ---------------------------------------------------------------------- *)
HealWorkload ==
    {<<str_memory_corruption, 20>>,
     <<str_gpu_memory_corruption, 5>>, <<str_emotional_deadlock, 80>>,
     <<str_resource_contention, 80>>, <<str_decision_oscillation, 80>>}

LogErrorHeal ==
    \E e \in HealWorkload :
        /\ Len(error_log) < MaxLog
        /\ LogError(e[1], R(e[2]), "details")

NextHeal == LogErrorHeal \/ DiagnoseCall \/ HealCall

SpecHeal == Init /\ [][NextHeal]_vars

(* ---------------------------------------------------------------------- *)
(* log_error and heal() alone, under the workload of a few error kinds and *)
(* logs of up to MaxShortLog entries                                       *)
(* ---------------------------------------------------------------------- *)
LogErrorHealShort ==
    \E e \in HealWorkload :
        /\ Len(error_log) < MaxShortLog
        /\ LogError(e[1], R(e[2]), "details")

NextHealShort == LogErrorHealShort \/ HealCall

SpecHealShort == Init /\ [][NextHealShort]_vars

(* ---------------------------------------------------------------------- *)
(* The error log filled past its capacity: the n-th log_error call passes  *)
(* n as its details                                                        *)
(* ---------------------------------------------------------------------- *)
NextDetails ==
    IF error_log = <<>> THEN 1 ELSE error_log[Len(error_log)].details + 1

LogErrorRing ==
    /\ NextDetails <= MaxRingCalls
    /\ LogError(str_memory_corruption, R(0), NextDetails)

NextRing == LogErrorRing \/ DiagnoseCall \/ HealCall

SpecRing == Init /\ [][NextRing]_vars

(* ---------------------------------------------------------------------- *)
(* Calls on the emotional state and the incentive system                   *)
(* ---------------------------------------------------------------------- *)
(* emotional_state.update_emotion(name, value, decay) *)
UpdateEmotionCall(name, value, decay) ==
    /\ emotional_state' =
          IF UpdateEmotionRaises(name) = "none"
          THEN UpdateEmotion(emotional_state, name, value, decay)
          ELSE emotional_state
    /\ emotion_updates' =
          IF UpdateEmotionRaises(name) = "none" THEN emotion_updates + 1
          ELSE emotion_updates
    /\ returned' = Returned("update_emotion", UpdateEmotionRaises(name),
                            <<>>, <<>>)
    /\ UNCHANGED <<health_metrics, error_log, memory, decision_threshold,
                   exploration_rate, reward_scaling, penalty_scaling,
                   reward_history>>
    /\ UNCHANGED <<wvars, avars>>

(* incentive_system.apply_reward(type, magnitude, emotional_state) *)
ApplyReward(type, magnitude) ==
    IF ApplyRewardRaises(type) # "none"
    THEN /\ returned' = ReturnedValue("apply_reward",
                                      ApplyRewardRaises(type), <<>>)
         /\ UNCHANGED <<health_metrics, error_log, emotional_state, memory,
                        decision_threshold, exploration_rate, reward_scaling,
                        penalty_scaling, reward_history, emotion_updates>>
         /\ UNCHANGED <<wvars, avars>>
    ELSE
    \E r \in {ApplyRewardState(reward_history, reward_scaling, emotional_state,
                              type, magnitude, now)} :
       /\ reward_history' = r.history
       /\ emotional_state' = r.emo
       /\ emotion_updates' = emotion_updates + 2
       /\ returned' = ReturnedValue("apply_reward", "none", <<r.scaled>>)
       /\ UNCHANGED <<health_metrics, error_log, memory, decision_threshold,
                      exploration_rate, reward_scaling, penalty_scaling>>
       /\ UNCHANGED <<wvars, avars>>

(* incentive_system.apply_penalty(type, magnitude, emotional_state) *)
ApplyPenalty(type, magnitude) ==
    IF ApplyPenaltyRaises(type) # "none"
    THEN /\ returned' = ReturnedValue("apply_penalty",
                                      ApplyPenaltyRaises(type), <<>>)
         /\ UNCHANGED <<health_metrics, error_log, emotional_state, memory,
                        decision_threshold, exploration_rate, reward_scaling,
                        penalty_scaling, reward_history, emotion_updates>>
         /\ UNCHANGED <<wvars, avars>>
    ELSE
    \E r \in {ApplyPenaltyState(reward_history, penalty_scaling, emotional_state,
                              type, magnitude, now)} :
       /\ reward_history' = r.history
       /\ emotional_state' = r.emo
       /\ emotion_updates' = emotion_updates + 2
       /\ returned' = ReturnedValue("apply_penalty", "none", <<r.scaled>>)
       /\ UNCHANGED <<health_metrics, error_log, memory, decision_threshold,
                      exploration_rate, reward_scaling, penalty_scaling>>
       /\ UNCHANGED <<wvars, avars>>

(* incentive_system.get_recent_rewards(time_window) *)
GetRecentRewardsCall(time_window) ==
    /\ returned' = ReturnedValue("get_recent_rewards", "none",
                                 GetRecentRewards(reward_history, time_window,
                                                  now))
    /\ UNCHANGED <<health_metrics, error_log, emotional_state, memory,
                   decision_threshold, exploration_rate, reward_scaling,
                   penalty_scaling, reward_history, emotion_updates>>
    /\ UNCHANGED <<wvars, avars>>

(* incentive_system.adapt_incentives(performance_trend) *)
AdaptIncentivesCall(performance_trend) ==
    \E r \in {AdaptIncentives(reward_scaling, penalty_scaling,
                              performance_trend)} :
       /\ reward_scaling' = r.reward
       /\ penalty_scaling' = r.penalty
       /\ adapt_calls' = adapt_calls + 1
       /\ returned' = ReturnedValue("adapt_incentives", "none", <<>>)
       /\ UNCHANGED <<task_history, tasks>>
       /\ UNCHANGED <<health_metrics, error_log, emotional_state, memory,
                      decision_threshold, exploration_rate, reward_history,
                      emotion_updates>>
       /\ UNCHANGED wvars

(* ---------------------------------------------------------------------- *)
(* The emotional state under up to MaxEmotionUpdates updates, made by      *)
(* update_emotion, apply_reward, apply_penalty and the                     *)
(* emotional_instability strategy; the agent starts with three             *)
(* emotional_instability errors already logged                             *)
(* ---------------------------------------------------------------------- *)
EmotionDeltas == {<<20, Frac(9, 10)>>, <<-60, R(1)>>, <<200, R(0)>>}

Magnitudes == {1, 50}

InstabilitySeverities == {4, 20}

InitEmotion ==
    /\ WarpInit
    /\ \E sev \in InstabilitySeverities :
          LET one(h) == LogErrorState(h, str_emotional_instability, R(sev),
                                     "details", 0)
              h3 == one(one(one(InitialHS)))
          IN /\ health_metrics = h3.health
             /\ error_log = h3.log
             /\ emotional_state = h3.emo
             /\ memory = h3.memory
             /\ decision_threshold = h3.threshold
             /\ exploration_rate = h3.exploration
             /\ emotion_updates = h3.updates
    /\ reward_scaling = R(1)
    /\ penalty_scaling = R(1)
    /\ reward_history = <<>>
    /\ returned = Returned("log_error", "none", <<>>, <<>>)
    /\ adapt_calls = 0
    /\ task_history = <<>>
    /\ tasks = [t \in Tasks |-> IdleTask]

UpdateEmotionStep ==
    \E name \in Emotions, d \in EmotionDeltas :
        /\ emotion_updates + 1 <= MaxEmotionUpdates
        /\ UpdateEmotionCall(name, R(d[1]), d[2])

ApplyRewardStep ==
    \E type \in RewardTypes, m \in Magnitudes :
        /\ emotion_updates + 2 <= MaxEmotionUpdates
        /\ ApplyReward(type, R(m))

ApplyPenaltyStep ==
    \E type \in PenaltyTypes, m \in Magnitudes :
        /\ emotion_updates + 2 <= MaxEmotionUpdates
        /\ ApplyPenalty(type, R(m))

HealEmotion ==
    /\ emotion_updates + 3 <= MaxEmotionUpdates
    /\ HealCall

NextEmotion ==
    UpdateEmotionStep \/ ApplyRewardStep \/ ApplyPenaltyStep \/ HealEmotion

SpecEmotion == InitEmotion /\ [][NextEmotion]_vars

(* ---------------------------------------------------------------------- *)
(* The emotional state and the incentive system called with valid and      *)
(* invalid names, up to MaxHistory records in the reward history, while    *)
(* the clock advances up to MaxClock                                       *)
(* ---------------------------------------------------------------------- *)
(* an emotion, the derived metrics, a method, an attribute every object    *)
(* has and a name that is no attribute of EmotionalState                   *)
EmotionNameInputs ==
    {"joy", "hope", "update_emotion", "__repr__"} \cup DerivedMetrics

(* two reward and two penalty categories, two method prefixes and a name   *)
(* that is no attribute of IncentiveSystem                                 *)
CategoryInputs ==
    {"curiosity", "innovation", "error", "stagnation",
     "apply", "get_total", "bogus"}

TrendInputs == {Frac(3, 10), Frac(2, 10), Frac(-2, 10), Frac(-3, 10)}

WindowInputs == {0, 1}

UpdateEmotionAny ==
    \E name \in EmotionNameInputs :
        /\ emotion_updates + 1 <= MaxEmotionUpdates
        /\ UpdateEmotionCall(name, R(10), Frac(9, 10))

ApplyRewardAny ==
    \E type \in CategoryInputs :
        /\ Len(reward_history) < MaxHistory
        /\ emotion_updates + 2 <= MaxEmotionUpdates
        /\ ApplyReward(type, R(2))

ApplyPenaltyAny ==
    \E type \in CategoryInputs :
        /\ Len(reward_history) < MaxHistory
        /\ emotion_updates + 2 <= MaxEmotionUpdates
        /\ ApplyPenalty(type, R(2))

GetRecentRewardsAny == \E w \in WindowInputs : GetRecentRewardsCall(w)

AdaptIncentivesOnce ==
    \E trend \in TrendInputs :
        /\ adapt_calls < 1
        /\ AdaptIncentivesCall(trend)

ClockAdvances ==
    /\ now < MaxClock
    /\ TimePasses

NextIncentive ==
    \/ UpdateEmotionAny
    \/ ApplyRewardAny
    \/ ApplyPenaltyAny
    \/ GetRecentRewardsAny
    \/ AdaptIncentivesOnce
    \/ ClockAdvances

SpecIncentive == Init /\ [][NextIncentive]_vars

(* ---------------------------------------------------------------------- *)
(* adapt_incentives alone. Fourteen calls with a trend above 0.2 take the  *)
(* scaling factors from (1, 1) to the two clamps (0.5, 1.5), fourteen with *)
(* a trend below -0.2 to (1.5, 0.5); a run starts from (1, 1) or from one  *)
(* of these two states, with the calls already made counted, and makes up  *)
(* to MaxAdaptCalls calls more                                             *)
(* ---------------------------------------------------------------------- *)
SaturationCalls == 14

AdaptSeeds ==
    {[reward |-> R(1), penalty |-> R(1), calls |-> 0],
     [reward |-> Frac(1, 2), penalty |-> Frac(3, 2), calls |-> SaturationCalls],
     [reward |-> Frac(3, 2), penalty |-> Frac(1, 2), calls |-> SaturationCalls]}

InitAdapt ==
    /\ WarpInit
    /\ health_metrics = InitialHealth
    /\ error_log = <<>>
    /\ emotional_state = InitialEmotionalState
    /\ memory = InitialMemory
    /\ decision_threshold = Frac(6, 10)
    /\ exploration_rate = Frac(1, 10)
    /\ reward_history = <<>>
    /\ emotion_updates = 0
    /\ \E seed \in AdaptSeeds :
          /\ reward_scaling = seed.reward
          /\ penalty_scaling = seed.penalty
          /\ adapt_calls = seed.calls
          /\ task_history = <<>>
          /\ tasks = [t \in Tasks |-> IdleTask]
          /\ returned = IF seed.calls = 0
                        THEN Returned("none", "none", <<>>, <<>>)
                        ELSE ReturnedValue("adapt_incentives", "none", <<>>)

AdaptTrends == TrendInputs \cup {R(0)}

AdaptIncentivesStep ==
    \E trend \in AdaptTrends :
        /\ adapt_calls % SaturationCalls < MaxAdaptCalls
        /\ AdaptIncentivesCall(trend)

NextAdapt == AdaptIncentivesStep

SpecAdapt == InitAdapt /\ [][NextAdapt]_vars

(* ---------------------------------------------------------------------- *)
(* process_with_warp on a system that may have been started, and           *)
(* _combine_phase_results called on a list of results                      *)
(* ---------------------------------------------------------------------- *)
ProcessWithWarp(input_data) ==
    \E r \in {ProcessWithWarpResult(is_active, is_light_speed, R(input_data))} :
       /\ task_history' = TaskDiversityUpdate(task_history, input_data)
       /\ returned' = ReturnedValue("process_with_warp", r.exc, r.value)
       /\ UNCHANGED <<health_metrics, error_log, emotional_state, memory,
                      decision_threshold, exploration_rate, reward_scaling,
                      penalty_scaling, reward_history, emotion_updates>>
       /\ UNCHANGED <<wvars, adapt_calls, tasks>>

(* task_diversity.update(task) called on its own: it returns nothing and  *)
(* only the tracked history changes                                        *)
TaskDiversityUpdateCall(task) ==
    /\ task_history' = TaskDiversityUpdate(task_history, task)
    /\ UNCHANGED <<hvars, wvars, adapt_calls, tasks>>

CombinePhaseResultsCall(results) ==
    \E r \in {CombinePhaseResults(results)} :
       /\ returned' = ReturnedValue("_combine_phase_results", r.exc, r.value)
       /\ UNCHANGED <<health_metrics, error_log, emotional_state, memory,
                      decision_threshold, exploration_rate, reward_scaling,
                      penalty_scaling, reward_history, emotion_updates>>
       /\ UNCHANGED <<wvars, avars>>

TaskInputs == {10, 20}

ResultValues == {R(10), R(20)}

ResultLists == UNION {[1..k -> ResultValues] : k \in 0..5}

ProcessWithWarpAny ==
    \E input_data \in TaskInputs :
        /\ Len(task_history) < MaxWarpCalls
        /\ ProcessWithWarp(input_data)

CombinePhaseResultsAny ==
    \E results \in ResultLists : CombinePhaseResultsCall(results)

TaskDiversityUpdateAny ==
    \E task \in TaskInputs :
        /\ Len(task_history) < MaxWarpCalls
        /\ TaskDiversityUpdateCall(task)

NextCombine ==
    \/ Start
    \/ ProcessWithWarpAny
    \/ CombinePhaseResultsAny
    \/ TaskDiversityUpdateAny

SpecCombine == Init /\ [][NextCombine]_vars

(* ---------------------------------------------------------------------- *)
(* Two heal() coroutines and log_error on one event loop                   *)
(* ---------------------------------------------------------------------- *)
(* coroutine t has run up to r: it is suspended at an await, or it has     *)
(* made its marking pass and returned                                      *)
HealAdvance(t, r, top, diagnosed, unhealed) ==
    /\ IF r.at > 0
       THEN /\ InstallHeal(r.state)
            /\ tasks' = [tasks EXCEPT ![t] =
                           [pc |-> "suspended", top |-> top, at |-> r.at,
                            actions |-> r.actions, status |-> "none",
                            diagnosed |-> diagnosed, unhealed |-> unhealed]]
            /\ returned' = returned
       ELSE \E ret \in {HealReturn(r)} :
            /\ InstallHeal(ret.state)
            /\ tasks' = [tasks EXCEPT ![t] =
                           [pc |-> "done", top |-> top, at |-> 0,
                            actions |-> ret.actions, status |-> ret.status,
                            diagnosed |-> diagnosed, unhealed |-> unhealed]]
            /\ returned' = Returned("heal", ret.status, ret.actions, <<>>)
    /\ UNCHANGED <<reward_scaling, penalty_scaling, reward_history>>
    /\ UNCHANGED <<wvars, adapt_calls, task_history>>

(* the event loop runs coroutine t from the start of heal() *)
HealStart(t) ==
    /\ tasks[t].pc = "idle"
    /\ \E issues \in {Diagnose(health_metrics, error_log)} :
         IF issues = <<>>
         THEN /\ tasks' = [tasks EXCEPT ![t] =
                             [IdleTask EXCEPT !.pc = "done",
                                              !.status = "healthy",
                                              !.diagnosed = Len(error_log)]]
              /\ returned' = Returned("heal", "healthy", <<>>, <<>>)
              /\ UNCHANGED <<health_metrics, error_log, emotional_state,
                             memory, decision_threshold, exploration_rate,
                             reward_scaling, penalty_scaling, reward_history,
                             emotion_updates>>
              /\ UNCHANGED <<wvars, adapt_calls, task_history>>
         ELSE \E top \in {TopIssues(issues)} :
              \E resets \in ResetOutcomesOf(memory, top) :
              \E r \in {HealFrom([state |-> HS, actions |-> <<>>], top, 1,
                                 resets)} :
                 HealAdvance(t, r, top, Len(error_log),
                             {i \in 1..Len(error_log) : ~error_log[i].healed})

(* the sleep of coroutine t is over: the strategy finishes, the loop goes  *)
(* on                                                                      *)
HealResume(t) ==
    /\ tasks[t].pc = "suspended"
    /\ \E T \in {tasks[t]} :
       \E resets \in ResetOutcomesOf(memory, T.top) :
       \E acc \in {HealStep([state |-> HS, actions |-> T.actions],
                            T.top[T.at], NoDraw)} :
       \E r \in {HealFrom(acc, T.top, T.at + 1, resets)} :
          HealAdvance(t, r, T.top, T.diagnosed, T.unhealed)

AsyncWorkload ==
    {<<str_resource_depletion, 20>>, <<str_communication_failure, 4>>,
     <<str_decision_paralysis, 20>>}

LogErrorAsync ==
    \E e \in AsyncWorkload :
        /\ Len(error_log) < MaxAsyncLog
        /\ LogError(e[1], R(e[2]), "details")

HealStartAny == \E t \in Tasks : HealStart(t)

HealResumeAny == \E t \in Tasks : HealResume(t)

NextAsync == LogErrorAsync \/ HealStartAny \/ HealResumeAny

SpecAsync == Init /\ [][NextAsync]_vars

(* ---------------------------------------------------------------------- *)
(* The self-healing system under a workload of every error type of the     *)
(* category table and logs of up to MaxShortLog entries: log_error and     *)
(* heal(), with one heal() coroutine on the event loop                     *)
(* ---------------------------------------------------------------------- *)
LogTypes ==
    {str_memory_corruption, str_memory_leak, str_emotional_instability,
     str_emotional_deadlock, str_resource_depletion, str_resource_contention,
     str_decision_paralysis, str_decision_oscillation,
     str_communication_failure, str_protocol_violation,
     str_gpu_memory_corruption}

(* every type, with a severity that empties its metric in two errors *)
LogWorkload == {<<ty, 60>> : ty \in LogTypes}

LogErrorShort ==
    \E e \in LogWorkload :
        /\ Len(error_log) < MaxShortLog
        /\ LogError(e[1], R(e[2]), "details")

(* a heal() call that suspends, as coroutine 1 *)
HealStartSuspending ==
    /\ tasks[1].pc = "idle"
    /\ HealSuspends(HS)
    /\ HealStart(1)

NextLog ==
    \/ LogErrorShort
    \/ HealCall
    \/ HealStartSuspending
    \/ HealResume(1)

SpecLog == Init /\ [][NextLog]_vars

(* ---------------------------------------------------------------------- *)
(* Calls on the memory bank, and the self-healing system on a memory that  *)
(* holds values: up to MaxAccesses store and retrieve calls, up to         *)
(* MaxEntangled entries of the entanglement map, logs of up to             *)
(* MaxMemoryLog entries                                                    *)
(* ---------------------------------------------------------------------- *)
MemoryUnchanged ==
    /\ UNCHANGED <<health_metrics, error_log, emotional_state,
                   decision_threshold, exploration_rate, reward_scaling,
                   penalty_scaling, reward_history, emotion_updates>>
    /\ UNCHANGED <<wvars, avars>>

(* memory.store(index, value) *)
MemoryStore(index, value) ==
    /\ memory' = IF IndexRaises(index) = "none"
                 THEN Store(memory, index, value, now) ELSE memory
    /\ returned' = Returned("store", IndexRaises(index), <<>>, <<>>)
    /\ MemoryUnchanged

(* memory.retrieve(index), random.gauss giving noise *)
MemoryRetrieve(index, noise) ==
    /\ memory' = IF IndexRaises(index) = "none"
                 THEN Retrieve(memory, index, now) ELSE memory
    /\ returned' = ReturnedValue("retrieve", IndexRaises(index),
                                 IF IndexRaises(index) = "none"
                                 THEN <<RetrieveValue(memory, index, noise)>>
                                 ELSE <<>>)
    /\ MemoryUnchanged

(* memory.entangle_memories(index1, index2, strength) *)
EntangleMemoriesCall(index1, index2, strength) ==
    /\ memory' = IF EntangleRaises(index1, index2) = "none"
                 THEN EntangleMemories(memory, index1, index2, strength)
                 ELSE memory
    /\ returned' = Returned("entangle_memories",
                            EntangleRaises(index1, index2), <<>>, <<>>)
    /\ MemoryUnchanged

(* memory.optimize_layout() *)
OptimizeLayoutCall ==
    /\ memory' = OptimizeLayout(memory)
    /\ returned' = Returned("optimize_layout", "none", <<>>, <<>>)
    /\ MemoryUnchanged

IndexInputs == {0, 2, memory_size}

StoreValues == {R(50), R(150)}

StrengthInputs == {Frac(1, 2)}

RetrieveNoises == {R(0), Frac(1, 20)}

(* two cells in range, and a pair with an index out of range *)
EntanglePairs == {<<0, 2>>, <<2, memory_size>>}

MemoryStoreAny ==
    \E index \in IndexInputs, value \in StoreValues :
        /\ Len(memory.access_history) < MaxAccesses
        /\ MemoryStore(index, value)

MemoryRetrieveAny ==
    \E index \in IndexInputs, noise \in RetrieveNoises :
        /\ Len(memory.access_history) < MaxAccesses
        /\ MemoryRetrieve(index, noise)

(* a pair of cells is entangled when the map holds nothing for it yet *)
EntangleMemoriesAny ==
    \E pair \in EntanglePairs, strength \in StrengthInputs :
      \E index1 \in {pair[1]}, index2 \in {pair[2]} :
        /\ Cardinality(memory.entanglement_map) < MaxEntangled
        /\ EntangleRaises(index1, index2) = "none" =>
              Entanglement(memory, index1, index2) = R(0)
        /\ EntangleMemoriesCall(index1, index2, strength)

MemoryWorkload ==
    {<<str_memory_corruption, 20>>, <<str_gpu_memory_corruption, 3>>}

LogErrorMemory ==
    \E e \in MemoryWorkload :
        /\ Len(error_log) < MaxMemoryLog
        /\ LogError(e[1], R(e[2]), "details")

NextMemory ==
    \/ MemoryStoreAny
    \/ MemoryRetrieveAny
    \/ EntangleMemoriesAny
    \/ OptimizeLayoutCall
    \/ LogErrorMemory
    \/ HealCall

SpecMemory == Init /\ [][NextMemory]_vars

(* ---------------------------------------------------------------------- *)
(* Properties                                                              *)
(* ---------------------------------------------------------------------- *)
AllTeamsActive == \A i \in Teams : is_active[i]

(* the monitor reading makes is_overloaded() true; thresholds written out  *)
Overload(cpu, mem) == cpu > 90 \/ mem > 90

(* C1: after any sequence of orchestrator steps the current phase is one   *)
(* of 1..5.                                                                *)
C1_PhaseInRange == phase.value \in 1..5

(* a revert was called for while the phase was Init, and the phase is      *)
(* still 1                                                                 *)
C1_Witness == lastStep = "revert" /\ phase.value = 1

(* C3: an advance from phase p (1 <= p <= 4) sets the phase to p+1,        *)
(* activates team p+1, resets the phase timer to the current time, adds    *)
(* 10 to the complexity score, and the loop keeps running.                 *)
C3_AdvanceEffect ==
    [][(Tick /\ lastStep' = "advance" /\ phase.value \in 1..4) =>
         /\ phase'.value = phase.value + 1
         /\ is_active'[phase.value + 1]
         /\ current_phase_start_time' = now
         /\ complexity_score' = complexity_score + 10
         /\ loop' = "running"]_vars

(* C4: the advance is taken from a non-terminal phase p only on a tick     *)
(* where team p's efficiency is at least 0.8 and at least 3 time units     *)
(* have passed since the phase timer was last reset; every tick that       *)
(* evaluates advancement and finds team p's efficiency below 0.8 resets    *)
(* the phase timer to the current time.                                    *)
C4_AdvanceGate ==
    [][Tick =>
         /\ (lastStep' = "advance" \/ phase'.value > phase.value) =>
               /\ phase.value \in 1..4
               /\ efficiency[phase.value] >= 80
               /\ now - current_phase_start_time >= 3
         /\ (lastStep' \in {"advance", "wait"} /\ phase.value \in 1..4
               /\ efficiency[phase.value] < 80) =>
               current_phase_start_time' = now]_vars

(* the timer was reset after the phase began (the efficiency had dropped), *)
(* and a later tick found the efficiency sustained and called the advance  *)
C4_Witness ==
    /\ lastStep = "advance"
    /\ current_phase_start_time > phase_began
    /\ now - current_phase_start_time >= 3

(* C5 as stated: a non-throttled tick reverts if and only if at least 10   *)
(* time units have elapsed since the current phase began and the error     *)
(* rate is above 0.1.                                                      *)
C5_RevertIffSincePhaseBegan ==
    [][\A cpu \in UsageValues, mem \in UsageValues :
         (ProcessPhase(cpu, mem) /\ ~Overload(cpu, mem)) =>
            ((lastStep' = "revert") <=>
                (now - phase_began >= 10 /\ error_rate > 10))]_vars

(* C5 amended: a non-throttled tick takes the revert branch if and only if *)
(* more than 10 time units have elapsed since the phase timer was last     *)
(* reset and the error rate is above 0.1; so no tick reverts while the     *)
(* error rate is at or below 0.1, and none earlier than 10 time units      *)
(* after the phase began.                                                  *)
C5_RevertIffTimerExceeded ==
    [][\A cpu \in UsageValues, mem \in UsageValues :
         (ProcessPhase(cpu, mem) /\ ~Overload(cpu, mem)) =>
            /\ (lastStep' = "revert") <=>
                  (now - current_phase_start_time > 10 /\ error_rate > 10)
            /\ (lastStep' = "revert") =>
                  (now - phase_began > 10 /\ error_rate > 10)]_vars

(* the revert branch has just been taken *)
C5_Witness ==
    /\ lastStep = "revert"
    /\ error_rate > 10
    /\ now - current_phase_start_time > 10

(* C7: the loop halts only at WarpDrive, with the light-speed flag set     *)
(* and all five teams active.                                              *)
C7_HaltsOnlyAtWarpDrive ==
    loop \in {"done", "raised"} =>
        (phase.value = 5 /\ is_light_speed /\ AllTeamsActive)

(* C8: a run started at time 0 during which the monitor never reports      *)
(* overload, the error rate stays at or below 0.1 and teams 1..4 keep      *)
(* their efficiency at or above 0.8 eventually performs the terminal       *)
(* action and halts at WarpDrive.                                          *)
C8_GoodRun ==
    /\ <>(lastStep = "start" /\ now = 0)
    /\ [](lastStep # "throttle")
    /\ [](loop = "running" =>
            (error_rate <= 10 /\ \A i \in 1..4 : efficiency[i] >= 80))

C8_ReachesWarpDrive ==
    C8_GoodRun => <>(loop = "done" /\ phase.value = 5 /\ is_light_speed)

(* C9: a tick on which the monitor reports overload changes neither the    *)
(* phase, the team flags, the phase timer, the complexity score nor the    *)
(* light-speed flag, and evaluates neither the stability check nor the     *)
(* advancement check.                                                      *)
C9_ThrottleChangesNothing ==
    [][\A cpu \in UsageValues, mem \in UsageValues :
         (ProcessPhase(cpu, mem) /\ Overload(cpu, mem)) =>
            /\ UNCHANGED <<phase, is_active, current_phase_start_time,
                           complexity_score, is_light_speed>>
            /\ lastStep' = "throttle"
            /\ loop' = "running"]_vars

(* a tick was throttled although the stability check was due and would     *)
(* have failed                                                             *)
C9_Witness ==
    /\ lastStep = "throttle"
    /\ now - current_phase_start_time > 10
    /\ error_rate > 10

(* C10: start_warp_sequence begins the run with the phase equal to Init,   *)
(* team 1 active and the phase timer set to the current time.              *)
C10_StartResets ==
    [][(lastStep # "start" /\ lastStep' = "start") =>
         /\ phase' = [isObj |-> FALSE, value |-> 1]
         /\ is_active'[1]
         /\ current_phase_start_time' = now
         /\ loop' = "running"]_vars

(* a run was started again, at a later time, after an earlier run ended    *)
C10_Witness ==
    /\ lastStep = "start"
    /\ exc # "none"
    /\ now > 0
    /\ current_phase_start_time = now

(* C11: a team's active flag goes from true to false only in a revert,    *)
(* and then only for the team of the phase being left; and in every state  *)
(* of a run in which light-speed has not been set, team i is active        *)
(* exactly when i <= current phase.                                        *)
C11_TeamsFollowPhase ==
    /\ []((loop # "idle" /\ ~is_light_speed) =>
             \A i \in Teams : is_active[i] <=> (i <= phase.value))
    /\ [][\A i \in Teams :
            (is_active[i] /\ ~is_active'[i]) =>
               (Tick /\ lastStep' = "revert" /\ i = phase.value)]_vars

(* a run is under way, has evaluated advancement, and exactly the team of  *)
(* the current phase (and no later team) is active                         *)
C11_Witness ==
    /\ loop = "running"
    /\ lastStep = "wait"
    /\ ~is_light_speed
    /\ is_active[phase.value]
    /\ \A i \in Teams : i > phase.value => ~is_active[i]

(* C12: after any sequence of log_error calls (any type, severity >= 0)    *)
(* and heal() calls, each of the five health metrics is within [0, 100].   *)
C12_HealthMetricsInRange ==
    \A m \in Metrics :
        RLeq(R(0), health_metrics[m]) /\ RLeq(health_metrics[m], R(100))

(* the unhealed entries of one type, and the sum of their severities *)
UnhealedOfType(log, t) ==
    {i \in 1..Len(log) : ~log[i].healed /\ log[i].type = t}

RECURSIVE SumSeverity(_, _)
SumSeverity(log, S) ==
    IF S = {} THEN R(0)
    ELSE LET i == CHOOSE j \in S : TRUE
         IN RAdd(log[i].severity, SumSeverity(log, S \ {i}))

LoggedTypes(log) == {log[i].type : i \in 1..Len(log)}

IsCriticalIssueOf(issue, m, health) ==
    /\ issue.type = str_critical_ \o MetricNames[m]
    /\ issue.severity = RDivInt(RMul(RSub(R(50), health[m]), R(10)), 50)
    /\ RLt(R(0), issue.severity) /\ RLeq(issue.severity, R(10))

IsRecurringIssueOf(issue, t, log) ==
    /\ issue.type = str_recurring_ \o t
    /\ issue.count = Cardinality(UnhealedOfType(log, t))
    /\ issue.severity = RDivInt(SumSeverity(log, UnhealedOfType(log, t)),
                                Cardinality(UnhealedOfType(log, t)))

(* C13: diagnose() returns exactly one critical issue, of severity         *)
(* (50 - value)/50 x 10 in (0, 10], for each health metric below 50, and   *)
(* exactly one recurring issue, carrying the count and the mean severity   *)
(* of the unhealed entries, for each error type with at least 3 unhealed   *)
(* log entries, and nothing else; the list is empty iff every metric is    *)
(* >= 50 and no type has 3 unhealed entries; and the call changes no       *)
(* state.                                                                  *)
C13_DiagnoseContent ==
    [][(returned'.op = "diagnose" /\ DiagnoseCall) =>
        LET iss == returned'.issues
            crit == {m \in Metrics : RLt(health_metrics[m], R(50))}
            recur == {t \in LoggedTypes(error_log) :
                        Cardinality(UnhealedOfType(error_log, t)) >= 3}
        IN /\ \A m \in crit :
                Cardinality({i \in 1..Len(iss) :
                    IsCriticalIssueOf(iss[i], m, health_metrics)}) = 1
           /\ \A t \in recur :
                Cardinality({i \in 1..Len(iss) :
                    IsRecurringIssueOf(iss[i], t, error_log)}) = 1
           /\ Len(iss) = Cardinality(crit) + Cardinality(recur)
           /\ (iss = <<>>) <=>
                 /\ \A m \in Metrics : RLeq(R(50), health_metrics[m])
                 /\ \A t \in LoggedTypes(error_log) :
                       Cardinality(UnhealedOfType(error_log, t)) < 3
           /\ health_metrics' = health_metrics
           /\ error_log' = error_log
           /\ emotional_state' = emotional_state
           /\ memory' = memory
           /\ decision_threshold' = decision_threshold
           /\ exploration_rate' = exploration_rate]_vars

(* diagnose() has returned a critical and a recurring issue from a log     *)
(* that also holds healed entries                                          *)
C13_Witness ==
    /\ returned.op = "diagnose"
    /\ \E i \in 1..Len(returned.issues) :
          StartsWith(returned.issues[i].type, str_critical_)
    /\ \E i \in 1..Len(returned.issues) :
          /\ StartsWith(returned.issues[i].type, str_recurring_)
          /\ returned.issues[i].count >= 3
    /\ \E i \in 1..Len(error_log) : error_log[i].healed

(* the position at which diagnose() discovers an issue: a critical issue   *)
(* at its metric's place in the metric order, a recurring issue after the  *)
(* critical ones, at the place of its type's first unhealed log entry      *)
DiscoveryRank(issue, log) ==
    IF StartsWith(issue.type, str_critical_)
    THEN CHOOSE m \in Metrics : issue.type = str_critical_ \o MetricNames[m]
    ELSE 5 + CHOOSE i \in 1..Len(log) :
                /\ ~log[i].healed
                /\ issue.type = str_recurring_ \o log[i].type
                /\ \A j \in 1..(i - 1) :
                      log[j].healed \/ log[j].type # log[i].type

ThreeMemoryCorruptions ==
    [i \in 1..3 |-> [type |-> str_memory_corruption, severity |-> R(20),
                     timestamp |-> 0, details |-> "details",
                     healed |-> FALSE]]

(* C14: the list diagnose() returns is in non-increasing severity order,   *)
(* and issues of equal severity keep their discovery order: critical       *)
(* issues in metric order first, then recurring issues in the order of     *)
(* each type's first unhealed log entry.  After three                      *)
(* log_error("memory_corruption", 20) calls the result is                  *)
(* [recurring_memory_corruption (20, count 3),                             *)
(*  critical_memory_integrity (2)].                                        *)
C14_DiagnoseOrder ==
    [][DiagnoseCall =>
        LET iss == returned'.issues IN
        /\ \A i, j \in 1..Len(iss) :
              i < j =>
                /\ RLeq(iss[j].severity, iss[i].severity)
                /\ iss[i].severity = iss[j].severity =>
                      DiscoveryRank(iss[i], error_log)
                        < DiscoveryRank(iss[j], error_log)
        /\ error_log = ThreeMemoryCorruptions =>
              iss = <<[type |-> str_recurring_ \o str_memory_corruption,
                       severity |-> R(20), count |-> 3],
                      [type |-> str_critical_ \o str_memory_integrity,
                       severity |-> R(2), count |-> 0]>>]_vars

(* diagnose() has returned two critical issues of equal severity and two   *)
(* recurring issues of equal severity                                      *)
C14_Witness ==
    /\ returned.op = "diagnose"
    /\ \E i \in 1..(Len(returned.issues) - 1) :
          /\ returned.issues[i].severity = returned.issues[i + 1].severity
          /\ StartsWith(returned.issues[i].type, str_critical_)
          /\ StartsWith(returned.issues[i + 1].type, str_critical_)
    /\ \E i \in 1..(Len(returned.issues) - 1) :
          /\ returned.issues[i].severity = returned.issues[i + 1].severity
          /\ StartsWith(returned.issues[i].type, str_recurring_)
          /\ StartsWith(returned.issues[i + 1].type, str_recurring_)

(* diagnose() has returned the two issues of the three-error example *)
C14_ExampleReached ==
    /\ returned.op = "diagnose"
    /\ error_log = ThreeMemoryCorruptions

(* C15: a heal() call made in a state where diagnose() would return no     *)
(* issue returns status "healthy" with an empty action list and changes    *)
(* nothing: health metrics, the error log and its healed flags, the        *)
(* emotional state, the memory store and the decision parameters.          *)
C15_HealthyHealChangesNothing ==
    [][(/\ returned'.op = "heal"
        /\ Diagnose(health_metrics, error_log) = <<>>
        /\ HealCall) =>
        /\ returned'.status = "healthy"
        /\ returned'.actions = <<>>
        /\ health_metrics' = health_metrics
        /\ error_log' = error_log
        /\ emotional_state' = emotional_state
        /\ memory' = memory
        /\ decision_threshold' = decision_threshold
        /\ exploration_rate' = exploration_rate]_vars

(* heal() has returned "healthy" on a log that holds healed entries, with  *)
(* values in the memory store                                              *)
C15_Witness ==
    /\ returned.op = "heal"
    /\ returned.status = "healthy"
    /\ \E i \in 1..Len(error_log) : error_log[i].healed
    /\ \E i \in Cells : memory.values[i] # R(0)
    /\ memory.access_history # <<>>

(* the strategy keys contained in the base subject of an issue label *)
MatchingKeys(label) ==
    {k \in 1..5 : IsSubstring(StrategyKeys[k], CoreErrorType(label))}

LeastOf(S) == CHOOSE k \in S : \A j \in S : k <= j

(* C16: a heal() call that finds issues considers only the three           *)
(* highest-severity issues, invokes for each of them at most one strategy  *)
(* (the first in the fixed order whose key is a substring of the issue's   *)
(* base subject), so records at most three actions, and returns            *)
(* "healing_performed" exactly when at least one action was recorded and   *)
(* "no_suitable_healing_strategy" exactly when none of the considered      *)
(* issues matched a strategy key.                                          *)
C16_HealTopThree ==
    [][returned'.op = "heal" =>
        LET iss == Diagnose(health_metrics, error_log)
            n == IF Len(iss) < 3 THEN Len(iss) ELSE 3
            matched == {i \in 1..n : MatchingKeys(iss[i].type) # {}}
            acts == returned'.actions
        IN iss # <<>> =>
           /\ Len(acts) = Cardinality(matched)
           /\ Len(acts) <= 3
           /\ \A i \in matched :
                 LET pos == Cardinality({j \in matched : j <= i}) IN
                 /\ acts[pos].issue = iss[i].type
                 /\ acts[pos].strategy =
                       StrategyKeys[LeastOf(MatchingKeys(iss[i].type))]
           /\ returned'.status = "healing_performed" <=> Len(acts) >= 1
           /\ returned'.status = "no_suitable_healing_strategy"
                 <=> matched = {}]_vars

(* heal() has returned "no_suitable_healing_strategy" while a fourth issue *)
(* that matches a strategy key is present                                  *)
C16_Witness ==
    /\ returned.op = "heal"
    /\ returned.status = "no_suitable_healing_strategy"
    /\ LET iss == Diagnose(health_metrics, error_log) IN
         /\ Len(iss) >= 4
         /\ MatchingKeys(iss[4].type) # {}

(* C17: when a heal() call completes, every log entry that was unhealed    *)
(* and whose type is a substring of the issue label of some action         *)
(* recorded by that call is marked healed, and no other entry changes; a   *)
(* healed flag never goes back from true to false (stated for logs below   *)
(* capacity, where entries keep their positions); and healed entries are   *)
(* not counted by diagnose().                                              *)
C17_HealedMarking ==
    /\ [][returned'.op = "heal" =>
            /\ Len(error_log') = Len(error_log)
            /\ \A i \in 1..Len(error_log) :
                  error_log'[i] =
                    [error_log[i] EXCEPT !.healed =
                        \/ error_log[i].healed
                        \/ \E a \in 1..Len(returned'.actions) :
                              IsSubstring(error_log[i].type,
                                          returned'.actions[a].issue)]]_vars
    /\ [][Len(error_log) < error_log_maxlen =>
            \A i \in 1..Len(error_log) :
                error_log[i].healed =>
                    (i <= Len(error_log') /\ error_log'[i].healed)]_vars
    /\ [](\A iss \in {Diagnose(health_metrics, error_log)} :
            \A t \in LoggedTypes(error_log) :
               LET mine == {i \in 1..Len(iss) :
                              iss[i].type = str_recurring_ \o t}
               IN /\ mine # {} <=>
                        Cardinality(UnhealedOfType(error_log, t)) >= 3
                  /\ \A i \in mine :
                        iss[i].count =
                           Cardinality(UnhealedOfType(error_log, t)))

(* heal() has marked an entry whose type is contained in, but is not, the  *)
(* base subject of an acted-on issue, and has left another entry unhealed  *)
C17_Witness ==
    /\ returned.op = "heal"
    /\ returned.actions # <<>>
    /\ \E i \in 1..Len(error_log) :
          /\ error_log[i].healed
          /\ \E a \in 1..Len(returned.actions) :
                IsSubstring(error_log[i].type, returned.actions[a].issue)
          /\ \A a \in 1..Len(returned.actions) :
                error_log[i].type # CoreErrorType(returned.actions[a].issue)
    /\ \E i \in 1..Len(error_log) : ~error_log[i].healed

(* C18: a log_error call with a severity >= 0 makes the log one record     *)
(* longer, the new record last, carrying the call's type, severity and     *)
(* details with healed = false; the records already in the log keep their  *)
(* place, content and healed flag; for a type of the category table the    *)
(* metric of its category becomes max(0, metric - severity) and the other  *)
(* four metrics keep their values. (Stated for logs below capacity.)       *)
C18_LogErrorEffect ==
    [][\A e \in LogWorkload :
          (returned'.op = "log_error" /\ LogError(e[1], R(e[2]), "details")) =>
            LET n == Len(error_log)
                table ==
                  {<<str_memory_corruption, 1>>, <<str_memory_leak, 1>>,
                   <<str_emotional_instability, 2>>,
                   <<str_emotional_deadlock, 2>>,
                   <<str_resource_depletion, 3>>,
                   <<str_resource_contention, 3>>,
                   <<str_decision_paralysis, 4>>,
                   <<str_decision_oscillation, 4>>,
                   <<str_communication_failure, 5>>,
                   <<str_protocol_violation, 5>>}
            IN /\ e[2] >= 0
               /\ Len(error_log') = n + 1
               /\ SubSeq(error_log', 1, n) = error_log
               /\ error_log'[n + 1].type = e[1]
               /\ error_log'[n + 1].severity = R(e[2])
               /\ error_log'[n + 1].details = "details"
               /\ error_log'[n + 1].healed = FALSE
               /\ \A m \in Metrics :
                     IF <<e[1], m>> \in table
                     THEN health_metrics'[m] =
                            RMax(R(0), RSub(health_metrics[m], R(e[2])))
                     ELSE (\E k \in Metrics : <<e[1], k>> \in table)
                            => health_metrics'[m] = health_metrics[m]]_vars

(* log_error has just added an unhealed record after a healed one, and    *)
(* the metric of the new record's category stands at the floor 0           *)
C18_Witness ==
    /\ returned.op = "log_error"
    /\ Len(error_log) >= 2
    /\ ~error_log[Len(error_log)].healed
    /\ \E i \in 1..(Len(error_log) - 1) : error_log[i].healed
    /\ \E m \in Metrics :
          /\ CategoryOf(error_log[Len(error_log)].type) = m
          /\ health_metrics[m] = R(0)

(* C19: the error log never holds more than 100 records, and a log_error   *)
(* call made when it holds 100 leaves it at 100: the oldest record is      *)
(* gone, healed or not, the other 99 follow in their order, unchanged, and *)
(* the new record is last.                                                 *)
C19_LogIsRing ==
    /\ [](Len(error_log) <= 100)
    /\ [][(/\ Len(error_log) = 100
            /\ LogError(str_memory_corruption, R(0), NextDetails)) =>
              /\ Len(error_log') = 100
              /\ \A i \in 1..99 : error_log'[i] = error_log[i + 1]
              /\ error_log'[100].details = NextDetails
              /\ error_log'[100].type = str_memory_corruption
              /\ error_log'[100].healed = FALSE]_vars

(* log_error has been called on a full log more than once: the records of *)
(* the first two calls are gone, the record of the third call, healed, is  *)
(* now the oldest, and unhealed records follow it                          *)
C19_Witness ==
    /\ returned.op = "log_error"
    /\ Len(error_log) = 100
    /\ error_log[1].details = 3
    /\ error_log[1].healed
    /\ error_log[100].details = 102
    /\ \E i \in 2..100 : ~error_log[i].healed

(* C20: from the default emotional state, after any sequence of            *)
(* update_emotion calls on the eight emotions, made directly or by         *)
(* apply_reward, apply_penalty or the emotional_instability strategy, each *)
(* of the eight intensities is at least 0 and at most 100; and             *)
(* update_emotion("joy", 20, 0.9) in the default state leaves joy at 70    *)
(* and the other seven at 45.                                              *)
C20_IntensitiesInRange ==
    /\ [](\A name \in Emotions :
            /\ RLeq(R(0), emotional_state[name])
            /\ RLeq(emotional_state[name], R(100)))
    /\ [][(/\ \A name \in Emotions : emotional_state[name] = R(50)
            /\ UpdateEmotionCall("joy", R(20), Frac(9, 10))) =>
              \A name \in Emotions :
                 emotional_state'[name] =
                    IF name = "joy" THEN R(70) ELSE R(45)]_vars

(* the emotional_instability strategy has rebalanced a state in which one *)
(* intensity had been clamped at 100 and the others decayed to 0: that     *)
(* intensity is now 100 pulled towards the median 0 and decayed twice      *)
C20_Witness ==
    /\ returned.op = "heal"
    /\ \E a \in 1..Len(returned.actions) :
          returned.actions[a].strategy = str_emotional_instability
    /\ emotion_updates = 4
    /\ \E name \in Emotions :
          /\ emotional_state[name] \in {Frac(243, 5), Frac(81, 2)}
          /\ \A other \in Emotions \ {name} :
                emotional_state[other] = R(0)

(* C21: update_emotion called with a name that is not one of the eight     *)
(* emotions, and apply_reward / apply_penalty called with a category that  *)
(* is not one of their four, end in an error and leave the eight           *)
(* intensities, the derived metrics, the scaling factors and the reward    *)
(* history as they were.                                                   *)
C21_InvalidNamesRejected ==
    [][/\ \A name \in EmotionNameInputs \ Emotions :
             (returned'.op = "update_emotion" /\
              UpdateEmotionCall(name, R(10), Frac(9, 10))) =>
                /\ returned'.status # "none"
                /\ UNCHANGED <<emotional_state, reward_scaling,
                               penalty_scaling, reward_history>>
       /\ \A type \in CategoryInputs \
                      {"curiosity", "efficiency", "cooperation",
                       "innovation"} :
             (returned'.op = "apply_reward" /\ ApplyReward(type, R(2))) =>
                /\ returned'.status # "none"
                /\ UNCHANGED <<emotional_state, reward_scaling,
                               penalty_scaling, reward_history>>
       /\ \A type \in CategoryInputs \
                      {"error", "resource_waste", "conflict", "stagnation"} :
             (returned'.op = "apply_penalty" /\ ApplyPenalty(type, R(2))) =>
                /\ returned'.status # "none"
                /\ UNCHANGED <<emotional_state, reward_scaling,
                               penalty_scaling, reward_history>>]_vars

(* C22: apply_reward and apply_penalty with a known category append        *)
(* exactly one record (category, base weight x magnitude x scaling factor, *)
(* current time) to the reward history and leave the earlier records as    *)
(* they were; get_recent_rewards(window) returns, in the order of the      *)
(* history, the (category, value) pair of each record with                 *)
(* now - timestamp <= window and of no other, and leaves the history       *)
(* unchanged.                                                              *)
C22_RewardHistory ==
    [][/\ \A type \in RewardTypes :
             (/\ returned'.op = "apply_reward"
              /\ emotion_updates' = emotion_updates + 2
              /\ ApplyReward(type, R(2))) =>
                LET base == CASE type = "curiosity" -> 5
                              [] type = "efficiency" -> 3
                              [] type = "cooperation" -> 4
                              [] type = "innovation" -> 6
                IN reward_history' =
                      Append(reward_history,
                             <<type, RMul(R(base * 2), reward_scaling), now>>)
       /\ \A type \in PenaltyTypes :
             (/\ returned'.op = "apply_penalty"
              /\ emotion_updates' = emotion_updates + 2
              /\ ApplyPenalty(type, R(2))) =>
                LET base == CASE type = "error" -> -3
                              [] type = "resource_waste" -> -4
                              [] type = "conflict" -> -5
                              [] type = "stagnation" -> -2
                IN reward_history' =
                      Append(reward_history,
                             <<type, RMul(R(base * 2), penalty_scaling), now>>)
       /\ \A w \in WindowInputs :
             (returned'.op = "get_recent_rewards" /\ GetRecentRewardsCall(w)) =>
                LET recent == {i \in 1..Len(reward_history) :
                                  now - reward_history[i][3] <= w}
                    got == returned'.value
                IN /\ reward_history' = reward_history
                   /\ Len(got) = Cardinality(recent)
                   /\ \A i \in recent :
                         got[Cardinality({j \in recent : j <= i})] =
                            <<reward_history[i][1], reward_history[i][2]>>
      ]_vars

(* get_recent_rewards has returned the record that is exactly as old as    *)
(* the window and not the older one; the returned record was scaled by a   *)
(* factor other than 1                                                     *)
C22_Witness ==
    /\ returned.op = "get_recent_rewards"
    /\ Len(reward_history) = 2
    /\ now = 2
    /\ reward_history[1][3] = 0
    /\ reward_history[2][3] = 1
    /\ returned.value = <<<<reward_history[2][1], reward_history[2][2]>>>>
    /\ reward_history[2][1] = "curiosity"
    /\ reward_history[2][2] = Frac(19, 2)

(* C23: after any sequence of adapt_incentives calls both scaling factors  *)
(* lie in [0.5, 1.5]; a call with a trend in [-0.2, 0.2] changes neither,  *)
(* a call with a trend above 0.2 does not raise reward_scaling and does    *)
(* not lower penalty_scaling, a call with a trend below -0.2 does not      *)
(* lower reward_scaling and does not raise penalty_scaling.                *)
C23_ScalingWithinBounds ==
    /\ [](/\ RLeq(Frac(1, 2), reward_scaling)
          /\ RLeq(reward_scaling, Frac(3, 2))
          /\ RLeq(Frac(1, 2), penalty_scaling)
          /\ RLeq(penalty_scaling, Frac(3, 2)))
    /\ [][\A trend \in AdaptTrends :
             (/\ adapt_calls' = adapt_calls + 1
              /\ AdaptIncentivesCall(trend)) =>
                /\ (RLeq(Frac(-2, 10), trend) /\ RLeq(trend, Frac(2, 10))) =>
                      /\ reward_scaling' = reward_scaling
                      /\ penalty_scaling' = penalty_scaling
                /\ RLt(Frac(2, 10), trend) =>
                      /\ RLeq(reward_scaling', reward_scaling)
                      /\ RLeq(penalty_scaling, penalty_scaling')
                /\ RLt(trend, Frac(-2, 10)) =>
                      /\ RLeq(reward_scaling, reward_scaling')
                      /\ RLeq(penalty_scaling', penalty_scaling)]_vars

(* sixteen calls have been made; the last one found reward_scaling at      *)
(* 0.525 and was stopped at the floor 0.5, while penalty_scaling rose to   *)
(* 1.49625                                                                 *)
C23_Witness ==
    /\ adapt_calls = SaturationCalls + 2
    /\ returned.op = "adapt_incentives"
    /\ reward_scaling = Frac(1, 2)
    /\ penalty_scaling = Frac(11970, 8000)

(* C24: when light-speed is not set and k <= 4 teams are active,           *)
(* process_with_warp returns the sum of weight_i x output_i over the k     *)
(* outputs, the weights being the first k of 0.1, 0.2, 0.3, 0.4 and not    *)
(* divided by their sum; _combine_phase_results on two results a and b     *)
(* returns 0.1 a + 0.2 b.                                                  *)
C24_UnnormalisedWeightedSum ==
    [][/\ \A input_data \in TaskInputs :
             (/\ returned'.op = "process_with_warp"
              /\ ProcessWithWarp(input_data)
              /\ ~is_light_speed
              /\ Len(GetActiveTeams(is_active)) \in 1..4) =>
                /\ returned'.status = "none"
                /\ returned'.value =
                      <<RSum([i \in 1..Len(GetActiveTeams(is_active)) |->
                                RMul(PhaseWeights[i], R(input_data))])>>
       /\ \A a \in ResultValues, b \in ResultValues :
             (/\ returned'.op = "_combine_phase_results"
              /\ CombinePhaseResultsCall(<<a, b>>)) =>
                returned'.value =
                   <<RAdd(RMul(Frac(1, 10), a), RMul(Frac(2, 10), b))>>
      ]_vars

(* C25: a tick on which the stability check finds the system unstable      *)
(* resets the phase timer to the current time, also at phase Init, where   *)
(* the phase stays Init and no team is deactivated; the loop keeps         *)
(* running, so that advancement is evaluated again on later ticks.         *)
C25_UnstableTickResetsTimer ==
    [][(Tick /\ lastStep' = "revert") =>
         /\ current_phase_start_time' = now
         /\ phase'.value = phase.value
         /\ is_active' = is_active
         /\ loop' = "running"]_vars

(* what is left of the label of a critical issue once "critical_" is      *)
(* removed is a metric name; no key of recovery_strategies occurs in one  *)
NoStrategyKeyInMetricName ==
    \A k \in 1..5, m \in Metrics :
        ~IsSubstring(StrategyKeys[k], MetricNames[m])

(* C28: no strategy key is a substring of a health-metric name, and a      *)
(* heal() call records no action for a critical issue; when diagnose()     *)
(* reports only critical issues heal() returns                             *)
(* "no_suitable_healing_strategy" and changes no health metric and no log  *)
(* entry; a metric below 50 for which diagnose() reports no recurring      *)
(* issue containing the key of the strategy that raises it is left as it   *)
(* is by heal().                                                           *)
C28_CriticalIssuesNeverHealed ==
    [][(returned'.op = "heal" /\ HealCall) =>
        \A iss \in {Diagnose(health_metrics, error_log)} :
           /\ NoStrategyKeyInMetricName
           /\ \A a \in 1..Len(returned'.actions) :
                 ~StartsWith(returned'.actions[a].issue, str_critical_)
           /\ (/\ iss # <<>>
               /\ \A i \in 1..Len(iss) :
                     StartsWith(iss[i].type, str_critical_)) =>
                 /\ returned'.status = "no_suitable_healing_strategy"
                 /\ health_metrics' = health_metrics
                 /\ error_log' = error_log
           /\ \A m \in Metrics :
                 (/\ RLt(health_metrics[m], R(50))
                  /\ \A i \in 1..Len(iss) :
                        ~(/\ StartsWith(iss[i].type, str_recurring_)
                          /\ IsSubstring(StrategyKeys[m], iss[i].type))) =>
                    health_metrics'[m] = health_metrics[m]]_vars

(* heal() has found no strategy: a metric is below 50, the only issues are *)
(* critical ones, and the log entries are still unhealed                   *)
C28_Witness ==
    /\ returned.op = "heal"
    /\ returned.status = "no_suitable_healing_strategy"
    /\ \E m \in Metrics : RLt(health_metrics[m], R(50))
    /\ \A iss \in {Diagnose(health_metrics, error_log)} :
          /\ iss # <<>>
          /\ \A i \in 1..Len(iss) : StartsWith(iss[i].type, str_critical_)
    /\ error_log # <<>>
    /\ \A i \in 1..Len(error_log) : ~error_log[i].healed

(* C29: when a heal() call finishes, the entries that were added to the    *)
(* log after that call ran diagnose() keep their healed flag: an entry     *)
(* logged while the call was suspended stays unhealed.                     *)
C29_LateEntriesStayUnhealed ==
    [][\A t \in Tasks :
         (/\ tasks[t].pc = "suspended"
          /\ tasks'[t].pc = "done"
          /\ HealResume(t)) =>
            \A i \in (tasks[t].diagnosed + 1)..Len(error_log) :
               error_log'[i].healed = error_log[i].healed]_vars

(* C30: two heal() calls never both record an action for the same issue    *)
(* diagnosed from the same unhealed entries, so the metric of that         *)
(* issue's strategy receives its gain once.                                *)
C30_StrategyAppliedOnce ==
    \A t1 \in Tasks, t2 \in Tasks :
       (t1 # t2 /\ tasks[t1].unhealed = tasks[t2].unhealed) =>
          \A a1 \in 1..Len(tasks[t1].actions),
             a2 \in 1..Len(tasks[t2].actions) :
             tasks[t1].actions[a1].issue # tasks[t2].actions[a2].issue

(* a recurring issue reported by diagnose() whose error type contains a    *)
(* strategy key                                                            *)
HealableRecurringReported ==
    \E iss \in {Diagnose(health_metrics, error_log)} :
       \E i \in 1..Len(iss) :
          /\ StartsWith(iss[i].type, str_recurring_)
          /\ FindStrategy(CoreErrorType(iss[i].type)) # 0

(* C31: once no further errors are logged, repeated heal() calls           *)
(* eventually leave diagnose() without any recurring issue whose error     *)
(* type contains a strategy key, whatever other issues are present.  A     *)
(* heal() call that applies no strategy leaves the log and the metrics as  *)
(* they are, so the next call starts from the same state and does the      *)
(* same; the property therefore requires every heal() call made while      *)
(* diagnose() reports such an issue to mark at least one log entry healed. *)
C31_HealMakesProgress ==
    [][(/\ returned'.op = "heal"
        /\ HealableRecurringReported
        /\ HealCall) =>
          \E i \in 1..Len(error_log) :
             ~error_log[i].healed /\ error_log'[i].healed]_vars

====
